---- MODULE Spec2Model ----
(***************************************************************************)
(* Model of the code graph of reach-code-visualizer: the graph container   *)
(* filled by GraphBuilder from the files of a project, its export and      *)
(* import, the query engine GraphQueries, the DependencyAnalyzer and the   *)
(* FlowTracer that run on it, and the lazy initialisation of these in the  *)
(* request threads of the HTTP server.                                     *)
(*                                                                         *)
(* Python values are modelled as follows.  A dict is a function whose      *)
(* DOMAIN is its key set (a record when the keys are strings), a list is   *)
(* a sequence, a str that the code inspects character by character (a      *)
(* name, a file path, a glob pattern) is a sequence of one-character       *)
(* strings, and a str that the code only compares as a whole (a node id,   *)
(* an enum name or value) is a TLA+ string.                                *)
(***************************************************************************)
EXTENDS Integers, Sequences, FiniteSets, TLC

VARIABLES
    graph,          \* GraphBuilder.graph: the networkx DiGraph
    result,         \* the value returned by the operation that ran last
    parse_results,  \* GraphBuilder.parse_results: str(file_path) -> ParseResult
    config,         \* app.config of the server: the four lazily set entries
    threads,        \* the request threads of the server: position and locals
    exported        \* the JSON file that export_json writes and import_json reads

vars == <<graph, result, parse_results, config, threads, exported>>

-----------------------------------------------------------------------------
(* Bounds of the model.                                                    *)

MaxEdges == 3       \* edges held by the graph
MaxDepth == 2       \* largest max_depth / depth argument of a query
MaxPaths == 2       \* largest max_paths argument of find_path
MaxNodes == 3       \* nodes held by the graph
MaxCycles == 2      \* largest max_cycles argument of detect_circular_dependencies
MaxAffected == 52   \* largest total_affected rated
MaxBuild == 3       \* files handed to one build_graph call
MaxFiles == 12      \* largest number of affected files rated

-----------------------------------------------------------------------------
(* Python built-ins.                                                       *)

None == "None"
NoneDict == [None |-> "None"]
EmptyDict == [k \in {} |-> k]

\* dict.get(key, default)
Get(d, k, default) == IF k \in DOMAIN d THEN d[k] ELSE default

\* dict.update(other): the keys of other overwrite, the others stay
Update(d, other) ==
    [k \in (DOMAIN d) \cup (DOMAIN other) |->
        IF k \in DOMAIN other THEN other[k] ELSE d[k]]

Min(a, b) == IF a <= b THEN a ELSE b
Max(a, b) == IF a >= b THEN a ELSE b

Range(s) == {s[i] : i \in DOMAIN s}

\* seq[:k], k of either sign
Slice(s, k) ==
    IF k >= 0 THEN SubSeq(s, 1, Min(k, Len(s)))
              ELSE SubSeq(s, 1, Max(Len(s) + k, 0))

\* str.startswith(prefix)
StartsWith(s, prefix) ==
    /\ Len(prefix) <= Len(s)
    /\ SubSeq(s, 1, Len(prefix)) = prefix

\* str.replace(old, new) for a one-character old
ReplaceChar(s, old, new) == [i \in DOMAIN s |-> IF s[i] = old THEN new ELSE s[i]]


\* list.sort(key=len): stable, ascending by length
RECURSIVE InsertByLen(_, _)
InsertByLen(sorted, p) ==
    IF sorted = <<>> THEN <<p>>
    ELSE IF Len(Head(sorted)) <= Len(p)
         THEN <<Head(sorted)>> \o InsertByLen(Tail(sorted), p)
         ELSE <<p>> \o sorted

RECURSIVE SortByLen(_)
SortByLen(ps) ==
    IF ps = <<>> THEN <<>>
    ELSE InsertByLen(SortByLen(SubSeq(ps, 1, Len(ps) - 1)), ps[Len(ps)])

-----------------------------------------------------------------------------
(* networkx.DiGraph.  node is the dict _node (id -> attribute dict), succ  *)
(* and pred are the dicts _succ and _pred with the keys of each inner dict  *)
(* in insertion order (the order out_edges and in_edges iterate in), and    *)
(* data is the attribute dict the two share for an edge.                    *)

EmptyGraph == [node |-> EmptyDict, succ |-> EmptyDict, pred |-> EmptyDict,
               data |-> EmptyDict]

\* `n in G`
InGraph(G, n) == n \in DOMAIN G.node

\* G.nodes.get(n, {})
NodeData(G, n) == Get(G.node, n, EmptyDict)

HasEdge(G, u, v) == <<u, v>> \in DOMAIN G.data

\* G.get_edge_data(u, v, {})
EdgeData(G, u, v) == Get(G.data, <<u, v>>, EmptyDict)

\* G.number_of_edges()
NumberOfEdges(G) == Cardinality(DOMAIN G.data)

\* a second insertion of a node keeps the attributes of the first
add_node_keeping(G, n, attr) ==
    IF InGraph(G, n) THEN G
    ELSE [G EXCEPT !.node = [k \in (DOMAIN G.node) \cup {n} |->
                                IF k = n THEN attr ELSE G.node[k]],
                   !.succ = [k \in (DOMAIN G.node) \cup {n} |->
                                IF k = n THEN <<>> ELSE G.succ[k]],
                   !.pred = [k \in (DOMAIN G.node) \cup {n} |->
                                IF k = n THEN <<>> ELSE G.pred[k]]]

\* G.add_node(n, **attr)
add_node(G, n, attr) ==
    IF InGraph(G, n)
    THEN [G EXCEPT !.node[n] = Update(@, attr)]
    ELSE [G EXCEPT !.node = [k \in (DOMAIN G.node) \cup {n} |->
                                IF k = n THEN attr ELSE G.node[k]],
                   !.succ = [k \in (DOMAIN G.node) \cup {n} |->
                                IF k = n THEN <<>> ELSE G.succ[k]],
                   !.pred = [k \in (DOMAIN G.node) \cup {n} |->
                                IF k = n THEN <<>> ELSE G.pred[k]]]

\* a second insertion of an edge keeps the attributes of the first
add_edge_keeping(G, u, v, attr) ==
    LET withNodes == add_node(add_node(G, u, EmptyDict), v, EmptyDict)
    IN  IF HasEdge(G, u, v) THEN withNodes
        ELSE [withNodes EXCEPT
                 !.succ[u] = Append(@, v),
                 !.pred[v] = Append(@, u),
                 !.data = [e \in (DOMAIN G.data) \cup {<<u, v>>} |->
                              IF e = <<u, v>> THEN attr ELSE G.data[e]]]

\* every insertion of an edge adds an entry to the adjacency lists
add_edge_repeating(G, u, v, attr) ==
    LET withNodes == add_node(add_node(G, u, EmptyDict), v, EmptyDict)
    IN  [withNodes EXCEPT
            !.succ[u] = Append(@, v),
            !.pred[v] = Append(@, u),
            !.data = [e \in (DOMAIN G.data) \cup {<<u, v>>} |->
                         IF e = <<u, v>> THEN attr ELSE G.data[e]]]

\* G.add_edge(u, v, **attr): both endpoints become nodes of the graph
add_edge(G, u, v, attr) ==
    LET withNodes == add_node(add_node(G, u, EmptyDict), v, EmptyDict)
    IN  IF HasEdge(G, u, v)
        THEN [withNodes EXCEPT !.data[<<u, v>>] = Update(@, attr)]
        ELSE [withNodes EXCEPT
                 !.succ[u] = Append(@, v),
                 !.pred[v] = Append(@, u),
                 !.data = [e \in (DOMAIN G.data) \cup {<<u, v>>} |->
                              IF e = <<u, v>> THEN attr ELSE G.data[e]]]

\* [v for _, v in G.out_edges(n)]
Successors(G, n) == G.succ[n]

\* [u for u, _ in G.in_edges(n)]
Predecessors(G, n) == G.pred[n]

\* networkx.all_simple_paths(G, source, target, cutoff), networkx >= 3.2:
\* depth-first, successors in adjacency order; a node is entered when it is
\* not on the current path, yielded when it is the target, and expanded
\* when fewer than cutoff hops lead to it and the target is not yet on the
\* path.  visit(prefix, n) is the part of the search below the step to n.
RECURSIVE visit(_, _, _, _, _)
RECURSIVE visit_each(_, _, _, _, _)
visit(G, prefix, n, target, cutoff) ==
    LET path == Append(prefix, n)
    IN  (IF n = target THEN <<path>> ELSE <<>>)
        \o (IF Len(prefix) < cutoff /\ target \notin Range(path)
            THEN visit_each(G, path, Successors(G, n), target, cutoff)
            ELSE <<>>)

visit_each(G, path, succs, target, cutoff) ==
    IF succs = <<>> THEN <<>>
    ELSE (IF Head(succs) \in Range(path) THEN <<>>
          ELSE visit(G, path, Head(succs), target, cutoff))
         \o visit_each(G, path, Tail(succs), target, cutoff)

\* a search that gives no path from a node to itself and none for a cutoff
\* below 1
all_simple_paths_proper(G, source, target, cutoff) ==
    IF source # target /\ cutoff >= 1 THEN visit(G, <<>>, source, target, cutoff) ELSE <<>>

all_simple_paths(G, source, target, cutoff) ==
    IF cutoff >= 0 THEN visit(G, <<>>, source, target, cutoff) ELSE <<>>

-----------------------------------------------------------------------------
(* File paths.                                                             *)

PrefixReach == <<"F", ":", "/", "R", "e", "a", "c", "h", "/">>
PrefixReachWin == <<"F", ":", "\\", "R", "e", "a", "c", "h", "\\">>

Prefixes == <<PrefixReach, PrefixReachWin, <<"/">>, <<"\\">> >>

\* the first prefix of the list that file_path starts with is removed
RECURSIVE StripFirstPrefix(_, _)
StripFirstPrefix(file_path, prefixes) ==
    IF prefixes = <<>> THEN file_path
    ELSE IF StartsWith(file_path, Head(prefixes))
         THEN SubSeq(file_path, Len(Head(prefixes)) + 1, Len(file_path))
         ELSE StripFirstPrefix(file_path, Tail(prefixes))

_short_path(file_path) ==
    IF file_path = <<>> THEN <<>>
    ELSE ReplaceChar(StripFirstPrefix(file_path, Prefixes), "\\", "/")

-----------------------------------------------------------------------------
(* GraphBuilder: ingestion.                                                *)

\* self.graph.add_node(node.id, type=node.type.name, ..., confidence=node.confidence.value)
NodeAttributes(node) ==
    [type         |-> node.type,
     name         |-> node.name,
     file_path    |-> node.file_path,
     line_number  |-> node.line_number,
     language     |-> node.language,
     code_snippet |-> node.code_snippet,
     metadata     |-> node.metadata,
     confidence   |-> node.confidence]

\* self.graph.add_edge(edge.source_id, edge.target_id, relationship=..., ...)
EdgeAttributes(edge) ==
    [relationship |-> edge.relationship,
     context      |-> edge.context,
     metadata     |-> edge.metadata,
     confidence   |-> edge.confidence]

RECURSIVE add_nodes(_, _)
add_nodes(G, ns) ==
    IF ns = <<>> THEN G
    ELSE add_nodes(add_node(G, Head(ns).id, NodeAttributes(Head(ns))), Tail(ns))

RECURSIVE add_edges(_, _)
add_edges(G, es) ==
    IF es = <<>> THEN G
    ELSE add_edges(add_edge(G, Head(es).source_id, Head(es).target_id,
                            EdgeAttributes(Head(es))), Tail(es))

\* GraphBuilder._add_parse_result_to_graph: the nodes, then the edges
_add_parse_result_to_graph(G, parse_result) ==
    add_edges(add_nodes(G, parse_result.nodes), parse_result.edges)

\* GraphBuilder.get_node
get_node(G, node_id) ==
    IF InGraph(G, node_id) THEN G.node[node_id] ELSE NoneDict

-----------------------------------------------------------------------------
(* GraphQueries.find_path.                                                 *)

\* GraphQueries._get_node_display_name
_get_node_display_name(G, node_id) ==
    IF InGraph(G, node_id) THEN Get(G.node[node_id], "name", node_id) ELSE node_id

\* a step that records the edge from the next node back to it
PathStepAtReversed(G, path_nodes, i) ==
    LET node_id == path_nodes[i]
        node_data == NodeData(G, node_id)
        last == i = Len(path_nodes)
        edge_data == IF last THEN EmptyDict
                     ELSE EdgeData(G, path_nodes[i + 1], node_id)
    IN  [node_id      |-> node_id,
         node_name    |-> Get(node_data, "name", node_id),
         node_type    |-> Get(node_data, "type", "UNKNOWN"),
         file_path    |-> _short_path(Get(node_data, "file_path", <<>>)),
         line_number  |-> Get(node_data, "line_number", 0),
         edge_type    |-> IF last THEN None ELSE Get(edge_data, "relationship", "?"),
         edge_context |-> IF last THEN None ELSE Get(edge_data, "context", <<>>),
         confidence   |-> Get(node_data, "confidence", "high")]

\* the PathStep built for path_nodes[i]; edge_type and edge_context are
\* written when the next node of the path is processed
PathStepAt(G, path_nodes, i) ==
    LET node_id == path_nodes[i]
        node_data == NodeData(G, node_id)
        last == i = Len(path_nodes)
        edge_data == IF last THEN EmptyDict
                     ELSE EdgeData(G, node_id, path_nodes[i + 1])
    IN  [node_id      |-> node_id,
         node_name    |-> Get(node_data, "name", node_id),
         node_type    |-> Get(node_data, "type", "UNKNOWN"),
         file_path    |-> _short_path(Get(node_data, "file_path", <<>>)),
         line_number  |-> Get(node_data, "line_number", 0),
         edge_type    |-> IF last THEN None ELSE Get(edge_data, "relationship", "?"),
         edge_context |-> IF last THEN None ELSE Get(edge_data, "context", <<>>),
         confidence   |-> Get(node_data, "confidence", "high")]

PathSteps(G, path_nodes) == [i \in DOMAIN path_nodes |-> PathStepAt(G, path_nodes, i)]

\* a weak edge takes a path to low at once
DegradeConfidenceToLow(path_confidence, edge_conf) ==
    IF edge_conf \in {"low", "ambiguous"} THEN "low" ELSE path_confidence

\* one low or ambiguous edge takes a path from high to medium, a further
\* one from medium to low
DegradeConfidence(path_confidence, edge_conf) ==
    IF edge_conf \in {"low", "ambiguous"}
    THEN (IF path_confidence = "high" THEN "medium" ELSE "low")
    ELSE path_confidence

\* path_confidence after the edges into path_nodes[2..i]
RECURSIVE PathConfidence(_, _, _)
PathConfidence(G, path_nodes, i) ==
    IF i <= 1 THEN "high"
    ELSE DegradeConfidence(
             PathConfidence(G, path_nodes, i - 1),
             Get(EdgeData(G, path_nodes[i - 1], path_nodes[i]), "confidence", "high"))

\* "Overall confidence is the worst among paths"
WorstConfidence(confidences) ==
    IF "low" \in Range(confidences) THEN "low"
    ELSE IF "medium" \in Range(confidences) THEN "medium"
    ELSE "high"

NotFound(G, source_id, target_id) ==
    [source          |-> _get_node_display_name(G, source_id),
     target          |-> _get_node_display_name(G, target_id),
     found           |-> FALSE,
     paths           |-> <<>>,
     total_paths     |-> 0,
     shortest_length |-> 0,
     confidence      |-> "high"]

ShortestLength(all_paths) ==
    CHOOSE m \in {Len(p) - 1 : p \in Range(all_paths)} :
        \A p \in Range(all_paths) : m <= Len(p) - 1

\* the first max_paths paths in the order of the search
ReturnedPathsUnsorted(all_paths, max_paths) == Slice(all_paths, max_paths)

\* all_paths.sort(key=len), then all_paths[:max_paths]
ReturnedPaths(all_paths, max_paths) == Slice(SortByLen(all_paths), max_paths)

find_path(G, source_id, target_id, max_depth, max_paths) ==
    IF ~InGraph(G, source_id) \/ ~InGraph(G, target_id)
    THEN NotFound(G, source_id, target_id)
    ELSE LET all_paths == all_simple_paths(G, source_id, target_id, max_depth)
             returned == ReturnedPaths(all_paths, max_paths)
             confidences == [i \in DOMAIN returned |->
                                PathConfidence(G, returned[i], Len(returned[i]))]
         IN  IF all_paths = <<>>
             THEN NotFound(G, source_id, target_id)
             ELSE [NotFound(G, source_id, target_id) EXCEPT
                      !.found = TRUE,
                      !.total_paths = Len(all_paths),
                      !.shortest_length = ShortestLength(all_paths),
                      !.paths = [i \in DOMAIN returned |-> PathSteps(G, returned[i])],
                      !.confidence = WorstConfidence(confidences)]

-----------------------------------------------------------------------------
(* GraphQueries.find_dependencies.                                         *)

\* class Direction
FORWARD == "forward"
BACKWARD == "backward"
BOTH == "both"

\* an entry of to_visit: (id, depth, edge_type, from_id)
ToVisit(id, depth, edge_type, from_id) ==
    [id |-> id, depth |-> depth, edge_type |-> edge_type, from_id |-> from_id]

\* the entry appended to result.dependencies for a visited node
Dependency(G, entry) ==
    LET data == NodeData(G, entry.id)
    IN  [id         |-> entry.id,
         name       |-> Get(data, "name", entry.id),
         type       |-> Get(data, "type", "UNKNOWN"),
         file       |-> _short_path(Get(data, "file_path", <<>>)),
         line       |-> Get(data, "line_number", 0),
         depth      |-> entry.depth,
         edge_type  |-> entry.edge_type,
         confidence |-> Get(data, "confidence", "high")]

FollowsForwardOnly(direction) == direction = FORWARD

FollowsForward(direction) == direction \in {FORWARD, BOTH}

FollowsBackward(direction) == direction \in {BACKWARD, BOTH}

\* the entries appended for the out-edges of current that lead to a node
\* not yet visited
ForwardNeighbors(G, current, visited) ==
    LET unvisited == SelectSeq(Successors(G, current.id), LAMBDA n : n \notin visited)
    IN  [i \in DOMAIN unvisited |->
            ToVisit(unvisited[i], current.depth + 1,
                    Get(EdgeData(G, current.id, unvisited[i]), "relationship", None),
                    current.id)]

\* the same for the in-edges of current
BackwardNeighbors(G, current, visited) ==
    LET unvisited == SelectSeq(Predecessors(G, current.id), LAMBDA n : n \notin visited)
    IN  [i \in DOMAIN unvisited |->
            ToVisit(unvisited[i], current.depth + 1,
                    Get(EdgeData(G, unvisited[i], current.id), "relationship", None),
                    current.id)]

\* a stack: the entries found last are visited first
PushFront(to_visit, found) == found \o to_visit

\* to_visit.append(...) for each entry found; to_visit.pop(0) takes the head
PushBack(to_visit, found) == to_visit \o found

\* the while loop of find_dependencies: result.dependencies when to_visit
\* is exhausted
RECURSIVE VisitAll(_, _, _, _, _, _, _)
VisitAll(G, node_id, direction, depth, to_visit, visited, dependencies) ==
    IF to_visit = <<>> THEN dependencies
    ELSE LET current == Head(to_visit)
             rest == Tail(to_visit)
         IN  IF current.id \in visited \/ current.depth > depth
             THEN VisitAll(G, node_id, direction, depth, rest, visited, dependencies)
             ELSE LET now == visited \cup {current.id}
                      found ==
                          (IF FollowsForward(direction)
                           THEN ForwardNeighbors(G, current, now) ELSE <<>>)
                          \o (IF FollowsBackward(direction)
                              THEN BackwardNeighbors(G, current, now) ELSE <<>>)
                  IN  VisitAll(G, node_id, direction, depth, PushBack(rest, found), now,
                               IF current.id # node_id
                               THEN Append(dependencies, Dependency(G, current))
                               ELSE dependencies)

find_dependencies(G, node_id, direction, depth) ==
    LET dependencies ==
            IF ~InGraph(G, node_id) THEN <<>>
            ELSE VisitAll(G, node_id, direction, depth,
                          <<ToVisit(node_id, 0, None, None)>>, {}, <<>>)
    IN  [node_id      |-> node_id,
         node_name    |-> Get(NodeData(G, node_id), "name", node_id),
         direction    |-> direction,
         depth        |-> depth,
         dependencies |-> dependencies,
         total_count  |-> Len(dependencies)]

-----------------------------------------------------------------------------
(* GraphQueries.find_usages, find_callers, find_callees, get_node_context. *)

\* what networkx raises when the edges of a node it does not hold are asked
\* for, and what self.graph.nodes[node_id] raises for such a node
NetworkXError == [raised |-> "NetworkXError"]
KeyError == [raised |-> "KeyError"]

\* the guard is never taken
MissingNever(G, node_id) == FALSE

\* `if node_id not in self.graph`
Missing(G, node_id) == node_id \notin DOMAIN G.node

\* the confidence of the source node is reported
UsageOfNode(G, source, node_id) ==
    LET source_data == NodeData(G, source)
        edge_data == EdgeData(G, source, node_id)
    IN  [id         |-> source,
         name       |-> Get(source_data, "name", source),
         type       |-> Get(source_data, "type", "UNKNOWN"),
         file       |-> _short_path(Get(source_data, "file_path", <<>>)),
         line       |-> Get(source_data, "line_number", 0),
         edge_type  |-> Get(edge_data, "relationship", "UNKNOWN"),
         context    |-> Get(edge_data, "context", <<>>),
         confidence |-> Get(source_data, "confidence", "high")]

\* an entry of usages
Usage(G, source, node_id) ==
    LET source_data == NodeData(G, source)
        edge_data == EdgeData(G, source, node_id)
    IN  [id         |-> source,
         name       |-> Get(source_data, "name", source),
         type       |-> Get(source_data, "type", "UNKNOWN"),
         file       |-> _short_path(Get(source_data, "file_path", <<>>)),
         line       |-> Get(source_data, "line_number", 0),
         edge_type  |-> Get(edge_data, "relationship", "UNKNOWN"),
         context    |-> Get(edge_data, "context", <<>>),
         confidence |-> Get(edge_data, "confidence", "high")]

\* find_usages(node_id)
find_usages(G, node_id) ==
    LET node_data == NodeData(G, node_id)
        empty == [node_id     |-> node_id,
                  node_name   |-> Get(node_data, "name", node_id),
                  node_type   |-> Get(node_data, "type", "UNKNOWN"),
                  usages      |-> <<>>,
                  total_count |-> 0]
    IN  IF Missing(G, node_id) THEN empty
        ELSE IF ~InGraph(G, node_id) THEN NetworkXError
        ELSE LET in_edges == Predecessors(G, node_id)
                 usages == [i \in DOMAIN in_edges |-> Usage(G, in_edges[i], node_id)]
             IN  [empty EXCEPT !.usages = usages, !.total_count = Len(usages)]

\* find_callers(function_id): the usages whose edge_type is CALLS
find_callers(G, function_id) ==
    LET found == find_usages(G, function_id)
    IN  IF found = NetworkXError THEN found
        ELSE LET usages == SelectSeq(found.usages, LAMBDA u : u.edge_type = "CALLS")
             IN  [found EXCEPT !.usages = usages, !.total_count = Len(usages)]

Callee(G, function_id, target) ==
    LET target_data == NodeData(G, target)
    IN  [id      |-> target,
         name    |-> Get(target_data, "name", target),
         type    |-> Get(target_data, "type", "UNKNOWN"),
         file    |-> _short_path(Get(target_data, "file_path", <<>>)),
         line    |-> Get(target_data, "line_number", 0),
         context |-> Get(EdgeData(G, function_id, target), "context", <<>>)]

\* find_callees(function_id)
find_callees(G, function_id) ==
    IF Missing(G, function_id) THEN <<>>
    ELSE IF ~InGraph(G, function_id) THEN NetworkXError
    ELSE LET called == SelectSeq(Successors(G, function_id),
                                 LAMBDA target :
                                     Get(EdgeData(G, function_id, target), "relationship", None)
                                         = "CALLS")
         IN  [i \in DOMAIN called |-> Callee(G, function_id, called[i])]

Incoming(G, source, node_id) ==
    LET source_data == NodeData(G, source)
        edge_data == EdgeData(G, source, node_id)
    IN  [from_id      |-> source,
         from_name    |-> Get(source_data, "name", source),
         from_type    |-> Get(source_data, "type", None),
         relationship |-> Get(edge_data, "relationship", None),
         context      |-> Get(edge_data, "context", None)]

Outgoing(G, node_id, target) ==
    LET target_data == NodeData(G, target)
        edge_data == EdgeData(G, node_id, target)
    IN  [to_id        |-> target,
         to_name      |-> Get(target_data, "name", target),
         to_type      |-> Get(target_data, "type", None),
         relationship |-> Get(edge_data, "relationship", None),
         context      |-> Get(edge_data, "context", None)]

\* get_node_context(node_id)
get_node_context(G, node_id) ==
    IF Missing(G, node_id) THEN EmptyDict
    ELSE IF ~InGraph(G, node_id) THEN KeyError
    ELSE LET in_edges == Predecessors(G, node_id)
             out_edges == Successors(G, node_id)
         IN  Update(G.node[node_id],
                    [id       |-> node_id,
                     incoming |-> [i \in DOMAIN in_edges |-> Incoming(G, in_edges[i], node_id)],
                     outgoing |-> [i \in DOMAIN out_edges |->
                                      Outgoing(G, node_id, out_edges[i])]])

-----------------------------------------------------------------------------
(* DependencyAnalyzer.detect_dead_code.                                    *)

\* fnmatch.fnmatch(name, pat) for patterns of literal characters, * and ?
\* (os.path.normcase is the identity on POSIX): * matches any run of
\* characters, the separator included
RECURSIVE fnmatch(_, _)
fnmatch(name, pat) ==
    IF pat = <<>> THEN name = <<>>
    ELSE IF Head(pat) = "*"
         THEN fnmatch(name, Tail(pat)) \/ (name # <<>> /\ fnmatch(Tail(name), pat))
    ELSE IF Head(pat) = "?"
         THEN name # <<>> /\ fnmatch(Tail(name), Tail(pat))
    ELSE name # <<>> /\ Head(name) = Head(pat) /\ fnmatch(Tail(name), Tail(pat))

PatternAutoload == <<"*", "*", "/", "a", "u", "t", "o", "l", "o", "a", "d", "/",
                     "*", ".", "g", "d">>
PatternMainTscn == <<"*", "*", "/", "m", "a", "i", "n", ".", "t", "s", "c", "n">>
PatternMainGd == <<"*", "*", "/", "m", "a", "i", "n", ".", "g", "d">>

\* the entry points used when the caller passes None
DefaultEntryPoints == <<PatternAutoload, PatternMainTscn, PatternMainGd>>

\* "Godot lifecycle methods are always entry points"
LifecycleEntryNames ==
    {<<"_", "r", "e", "a", "d", "y">>,
     <<"_", "p", "r", "o", "c", "e", "s", "s">>,
     <<"_", "p", "h", "y", "s", "i", "c", "s", "_", "p", "r", "o", "c", "e", "s", "s">>,
     <<"_", "i", "n", "p", "u", "t">>,
     <<"_", "u", "n", "h", "a", "n", "d", "l", "e", "d", "_", "i", "n", "p", "u", "t">>,
     <<"_", "n", "o", "t", "i", "f", "i", "c", "a", "t", "i", "o", "n">>,
     <<"_", "i", "n", "i", "t">>,
     <<"_", "e", "n", "t", "e", "r", "_", "t", "r", "e", "e">>,
     <<"_", "e", "x", "i", "t", "_", "t", "r", "e", "e">>}

\* the private functions that are reported all the same
ReportedPrivateNames ==
    {<<"_", "r", "e", "a", "d", "y">>,
     <<"_", "p", "r", "o", "c", "e", "s", "s">>,
     <<"_", "p", "h", "y", "s", "i", "c", "s", "_", "p", "r", "o", "c", "e", "s", "s">>}

\* the types skipped as "often false positives"
SkippedTypes == {"NODE_REFERENCE", "RESOURCE", "AMBIGUOUS", "UNKNOWN"}

\* the relationships whose source is pulled in when the target is reachable
PullingRelationships == {"CALLS", "REFERENCES", "CONNECTS_TO"}

MatchesEntryPattern(data, entry_points) ==
    \E i \in DOMAIN entry_points :
        fnmatch(_short_path(Get(data, "file_path", <<>>)), entry_points[i])

IsLifecycleFunction(data) ==
    /\ Get(data, "type", "") = "FUNCTION"
    /\ Get(data, "name", <<>>) \in LifecycleEntryNames

\* every SignalConnection counts, wherever it was declared
IsSceneConnectionAny(data) == Get(data, "type", "") = "SIGNAL_CONNECTION"

IsSceneConnection(data) ==
    /\ Get(data, "type", "") = "SIGNAL_CONNECTION"
    /\ Get(Get(data, "metadata", EmptyDict), "defined_in_scene", FALSE)

\* entry_node_ids
EntryNodeIds(G, entry_points) ==
    {n \in DOMAIN G.node :
        \/ MatchesEntryPattern(G.node[n], entry_points)
        \/ IsLifecycleFunction(G.node[n])
        \/ Get(G.node[n], "type", "") = "SCENE"
        \/ IsSceneConnection(G.node[n])}

\* the sources pulled in whatever the relationship of the edge
PulledSourcesAny(G, current) == Predecessors(G, current)

\* the sources of the in-edges of current that pull them in
PulledSources(G, current) ==
    SelectSeq(Predecessors(G, current),
              LAMBDA source :
                  Get(EdgeData(G, source, current), "relationship", None)
                      \in PullingRelationships)

\* the while loop over to_visit: to_visit.pop() takes the last entry.  The
\* value is the reachable set with the number of iterations the loop made.
RECURSIVE Reachability(_, _, _, _)
Reachability(G, to_visit, reachable, iterations) ==
    IF to_visit = <<>> THEN [reachable |-> reachable, iterations |-> iterations]
    ELSE LET current == to_visit[Len(to_visit)]
             rest == SubSeq(to_visit, 1, Len(to_visit) - 1)
         IN  IF current \in reachable
             THEN Reachability(G, rest, reachable, iterations + 1)
             ELSE LET now == reachable \cup {current}
                      targets == SelectSeq(Successors(G, current),
                                           LAMBDA target : target \notin now)
                      sources == SelectSeq(PulledSources(G, current),
                                           LAMBDA source : source \notin now)
                  IN  Reachability(G, rest \o targets \o sources, now, iterations + 1)

NodeInfo(G, node_id) ==
    LET data == G.node[node_id]
    IN  [id   |-> node_id,
         name |-> Get(data, "name", <<>>),
         type |-> Get(data, "type", ""),
         file |-> _short_path(Get(data, "file_path", <<>>)),
         line |-> Get(data, "line_number", 0)]

\* a private function "that might be dynamically called"
IsSkippedPrivate(data) ==
    /\ Get(data, "type", "") = "FUNCTION"
    /\ StartsWith(Get(data, "name", <<>>), <<"_">>)
    /\ Get(data, "name", <<>>) \notin ReportedPrivateNames

has_emitter(G, node_id) ==
    \E i \in DOMAIN Predecessors(G, node_id) :
        Get(EdgeData(G, Predecessors(G, node_id)[i], node_id), "relationship", None) = "EMITS"

has_connection(G, node_id) ==
    \E i \in DOMAIN Successors(G, node_id) :
        Get(EdgeData(G, node_id, Successors(G, node_id)[i]), "relationship", None)
            = "CONNECTS_TO"

\* the nodes the second loop considers for a report
Candidates(G, reachable) ==
    {n \in DOMAIN G.node :
        /\ n \notin reachable
        /\ Get(G.node[n], "type", "") \notin SkippedTypes
        /\ ~IsSkippedPrivate(G.node[n])}

\* a signal is reported whether or not it is emitted or connected
UnreachableSignalsAll(G, reachable) ==
    {NodeInfo(G, n) : n \in {c \in Candidates(G, reachable) :
                                Get(G.node[c], "type", "") = "SIGNAL"}}

UnreachableSignals(G, reachable) ==
    {NodeInfo(G, n) : n \in {c \in Candidates(G, reachable) :
                                /\ Get(G.node[c], "type", "") = "SIGNAL"
                                /\ ~has_emitter(G, c)
                                /\ ~has_connection(G, c)}}

\* private functions are reported like the others
UnreachableFunctionsAll(G, reachable) ==
    {NodeInfo(G, n) : n \in {c \in DOMAIN G.node :
                                /\ c \notin reachable
                                /\ Get(G.node[c], "type", "") = "FUNCTION"}}

UnreachableFunctions(G, reachable) ==
    {NodeInfo(G, n) : n \in {c \in Candidates(G, reachable) :
                                Get(G.node[c], "type", "") = "FUNCTION"}}

UnreachableClasses(G, reachable) ==
    {NodeInfo(G, n) : n \in {c \in Candidates(G, reachable) :
                                Get(G.node[c], "type", "") = "CLASS"}}

\* the patterns in force: the defaults when the caller passes None
EntryPatterns(entry_points) ==
    IF entry_points = None THEN DefaultEntryPoints ELSE entry_points

\* list(entry_node_ids): the ids in one of the orders a set may iterate in
ListOf(ids) ==
    {order \in [1..Cardinality(ids) -> ids] :
        \A i \in DOMAIN order, j \in DOMAIN order : order[i] = order[j] => i = j}

\* detect_dead_code(entry_points), listed being list(entry_node_ids): the
\* order the set iterates in, the same in its two uses.  The three lists of
\* the result hold one entry per node; they are given as sets.
detect_dead_code(G, entry_points, listed) ==
    LET reachable == Reachability(G, listed, {}, 0).reachable
    IN  [total_unreachable     |-> Cardinality(UnreachableFunctions(G, reachable))
                                   + Cardinality(UnreachableClasses(G, reachable))
                                   + Cardinality(UnreachableSignals(G, reachable)),
         unreachable_functions |-> UnreachableFunctions(G, reachable),
         unreachable_classes   |-> UnreachableClasses(G, reachable),
         unreachable_signals   |-> UnreachableSignals(G, reachable),
         entry_points_used     |-> [i \in DOMAIN Slice(listed, 20) |->
                                       Get(G.node[listed[i]], "name", <<listed[i]>>)],
         total_reachable       |-> Cardinality(reachable)]

-----------------------------------------------------------------------------
(* DependencyAnalyzer.detect_circular_dependencies.                        *)

\* the edges of the subgraph searched: `if edge_types:` is false for None
\* and for the empty list, and then the whole graph is searched
SubgraphEdges(G, edge_types) ==
    IF edge_types # None /\ edge_types # <<>>
    THEN {edge \in DOMAIN G.data :
             Get(G.data[edge], "relationship", None) \in Range(edge_types)}
    ELSE DOMAIN G.data

\* the elementary cycles of two or more nodes that begin with path, each
\* written from every one of its nodes
RECURSIVE CyclesFrom(_, _)
CyclesFrom(edges, path) ==
    (IF Len(path) >= 2 /\ <<path[Len(path)], path[1]>> \in edges THEN {path} ELSE {})
    \cup UNION {CyclesFrom(edges, Append(path, edge[2])) :
                   edge \in {x \in edges : x[1] = path[Len(path)] /\ x[2] \notin Range(path)}}

Rotations(cycle) ==
    {[i \in DOMAIN cycle |-> cycle[((i + k - 1) % Len(cycle)) + 1]] : k \in DOMAIN cycle}

\* list(nx.simple_cycles(subgraph)), networkx >= 3.2.1: the self-loops come
\* first, then every elementary cycle of two or more nodes once; which node a
\* cycle is written from and the order within the two groups follow the
\* iteration order of sets and are left open
simple_cycles(edges) ==
    LET loops == {<<edge[1]>> : edge \in {x \in edges : x[1] = x[2]}}
        proper == {x \in edges : x[1] # x[2]}
        written == UNION {CyclesFrom(proper, <<edge[1]>>) : edge \in proper}
        classes == {Rotations(cycle) : cycle \in written}
        chosen == {R \in SUBSET written : \A K \in classes : Cardinality(R \cap K) = 1}
    IN  UNION {{first \o rest : first \in ListOf(loops), rest \in ListOf(R)} : R \in chosen}

\* cycle_data: one entry per node of the cycle
CycleData(G, cycle_nodes) ==
    [i \in DOMAIN cycle_nodes |->
        LET node_id == cycle_nodes[i]
            node_data == NodeData(G, node_id)
        IN  [id   |-> node_id,
             name |-> Get(node_data, "name", node_id),
             type |-> Get(node_data, "type", "UNKNOWN"),
             file |-> _short_path(Get(node_data, "file_path", <<>>)),
             line |-> Get(node_data, "line_number", 0)]]

\* cycle_types: the relationship of the edge from each node to the next one
CycleTypes(G, cycle_nodes) ==
    {Get(EdgeData(G, cycle_nodes[i], cycle_nodes[(i % Len(cycle_nodes)) + 1]),
         "relationship", "UNKNOWN") : i \in DOMAIN cycle_nodes}

CycleType(cycle_types) ==
    IF "CALLS" \in cycle_types THEN "call"
    ELSE IF "EMITS" \in cycle_types \/ "CONNECTS_TO" \in cycle_types THEN "signal"
    ELSE IF "REFERENCES" \in cycle_types THEN "resource"
    ELSE "data"

\* a cycle of three nodes is rated like one of two
SeverityHighToThree(length) ==
    IF length <= 3 THEN "high" ELSE IF length <= 4 THEN "medium" ELSE "low"

Severity(length) ==
    IF length <= 2 THEN "high" ELSE IF length <= 4 THEN "medium" ELSE "low"

CircularDependency(G, cycle_nodes) ==
    [cycle        |-> CycleData(G, cycle_nodes),
     cycle_length |-> Len(cycle_nodes),
     severity     |-> Severity(Len(cycle_nodes)),
     cycle_type   |-> CycleType(CycleTypes(G, cycle_nodes))]

\* no cycle is passed over
SkippedNever(cycle_nodes) == FALSE

\* `if len(cycle_nodes) < 2: continue`
Skipped(cycle_nodes) == Len(cycle_nodes) < 2

\* the loop over cycles[:max_cycles]
RECURSIVE ProcessCycles(_, _, _)
ProcessCycles(G, cycles, report) ==
    IF cycles = <<>> THEN report
    ELSE IF Skipped(Head(cycles)) THEN ProcessCycles(G, Tail(cycles), report)
    ELSE LET cycle == CircularDependency(G, Head(cycles))
             count == Get(report.by_type, cycle.cycle_type, 0) + 1
         IN  ProcessCycles(G, Tail(cycles),
                 [report EXCEPT !.cycles = Append(@, cycle),
                                !.by_type = Update(@, [t \in {cycle.cycle_type} |-> count])])

\* detect_circular_dependencies(edge_types, max_cycles), cycles being
\* list(nx.simple_cycles(subgraph))
detect_circular_dependencies(G, edge_types, max_cycles, cycles) ==
    LET report == ProcessCycles(G, Slice(cycles, max_cycles),
                                [total_cycles |-> 0, cycles |-> <<>>, by_type |-> EmptyDict])
    IN  [report EXCEPT !.total_cycles = Len(report.cycles)]

-----------------------------------------------------------------------------
(* DependencyAnalyzer.analyze_impact.                                      *)

\* an entry of direct_impact
DirectEntry(G, source, node_id) ==
    LET source_data == NodeData(G, source)
    IN  [id           |-> source,
         name         |-> Get(source_data, "name", source),
         type         |-> Get(source_data, "type", "UNKNOWN"),
         file         |-> _short_path(Get(source_data, "file_path", <<>>)),
         line         |-> Get(source_data, "line_number", 0),
         relationship |-> Get(EdgeData(G, source, node_id), "relationship", "UNKNOWN")]

\* every entry is tagged with the depth of the direct sources
IndirectEntryShallow(G, source, d) ==
    LET source_data == NodeData(G, source)
    IN  [id    |-> source,
         name  |-> Get(source_data, "name", source),
         type  |-> Get(source_data, "type", "UNKNOWN"),
         file  |-> _short_path(Get(source_data, "file_path", <<>>)),
         line  |-> Get(source_data, "line_number", 0),
         depth |-> 1]

\* an entry of indirect_impact
IndirectEntry(G, source, d) ==
    LET source_data == NodeData(G, source)
    IN  [id    |-> source,
         name  |-> Get(source_data, "name", source),
         type  |-> Get(source_data, "type", "UNKNOWN"),
         file  |-> _short_path(Get(source_data, "file_path", <<>>)),
         line  |-> Get(source_data, "line_number", 0),
         depth |-> d]

\* `if file_path: result.affected_files.add(file_path)`
AddFile(affected_files, file_path) ==
    IF file_path # <<>> THEN affected_files \cup {file_path} ELSE affected_files

\* the sources of the in-edges of the nodes of current_level, in the order
\* the two nested loops meet them
RECURSIVE SourcesOf(_, _)
SourcesOf(G, current_level) ==
    IF current_level = <<>> THEN <<>>
    ELSE Predecessors(G, Head(current_level)) \o SourcesOf(G, Tail(current_level))

\* the levels start one hop further out: the in-edges of the direct sources
FirstLevelBeyond(G, node_id) == Predecessors(G, node_id)

\* current_level before the first round
FirstLevel(G, node_id) == <<node_id>>

\* one round of the loop over d: walk holds visited, next_level,
\* indirect_impact and affected_files
RECURSIVE ScanLevel(_, _, _, _, _)
ScanLevel(G, sources, d, direct_ids, walk) ==
    IF sources = <<>> THEN walk
    ELSE LET source == Head(sources)
             file_path == _short_path(Get(NodeData(G, source), "file_path", <<>>))
         IN  IF source \in walk.visited THEN ScanLevel(G, Tail(sources), d, direct_ids, walk)
             ELSE ScanLevel(G, Tail(sources), d, direct_ids,
                     [visited         |-> walk.visited \cup {source},
                      next_level      |-> Append(walk.next_level, source),
                      indirect_impact |-> IF source \notin direct_ids
                                          THEN Append(walk.indirect_impact,
                                                      IndirectEntry(G, source, d))
                                          ELSE walk.indirect_impact,
                      affected_files  |-> AddFile(walk.affected_files, file_path)])

\* `for d in range(1, depth + 1)`
RECURSIVE ScanLevels(_, _, _, _, _, _)
ScanLevels(G, d, depth, current_level, direct_ids, walk) ==
    IF d > depth THEN walk
    ELSE LET after == ScanLevel(G, SourcesOf(G, current_level), d, direct_ids,
                                [walk EXCEPT !.next_level = <<>>])
         IN  ScanLevels(G, d + 1, depth, after.next_level, direct_ids, after)

RECURSIVE FilesOf(_)
FilesOf(entries) ==
    IF entries = <<>> THEN {}
    ELSE AddFile(FilesOf(Tail(entries)), Head(entries).file)

\* a threshold is crossed as soon as it is reached
RiskLevelInclusive(total_affected, files) ==
    IF total_affected >= 50 \/ files >= 10 THEN "critical"
    ELSE IF total_affected >= 20 \/ files >= 5 THEN "high"
    ELSE IF total_affected >= 5 THEN "medium"
    ELSE "low"

\* the thresholds of the risk level
RiskLevel(total_affected, files) ==
    IF total_affected > 50 \/ files > 10 THEN "critical"
    ELSE IF total_affected > 20 \/ files > 5 THEN "high"
    ELSE IF total_affected > 5 THEN "medium"
    ELSE "low"

\* analyze_impact(node_id, depth)
analyze_impact(G, node_id, depth) ==
    LET node_data == NodeData(G, node_id)
        empty == [node_id         |-> node_id,
                  node_name       |-> Get(node_data, "name", node_id),
                  node_type       |-> Get(node_data, "type", "UNKNOWN"),
                  direct_impact   |-> <<>>,
                  indirect_impact |-> <<>>,
                  total_affected  |-> 0,
                  affected_files  |-> {},
                  risk_level      |-> "low"]
        in_edges == IF InGraph(G, node_id) THEN Predecessors(G, node_id) ELSE <<>>
        direct_impact == [i \in DOMAIN in_edges |-> DirectEntry(G, in_edges[i], node_id)]
        walk == ScanLevels(G, 1, depth, FirstLevel(G, node_id), Range(in_edges),
                           [visited         |-> {node_id},
                            next_level      |-> <<>>,
                            indirect_impact |-> <<>>,
                            affected_files  |-> FilesOf(direct_impact)])
        total_affected == Len(direct_impact) + Len(walk.indirect_impact)
    IN  IF ~InGraph(G, node_id) THEN empty
        ELSE [empty EXCEPT !.direct_impact   = direct_impact,
                           !.indirect_impact = walk.indirect_impact,
                           !.total_affected  = total_affected,
                           !.affected_files  = walk.affected_files,
                           !.risk_level      = RiskLevel(total_affected,
                                                         Cardinality(walk.affected_files))]

-----------------------------------------------------------------------------
(* GraphQueries.find_node_by_name and FlowTracer.trace_signal_flow.        *)

UpperLetters ==
    <<"A", "B", "C", "D", "E", "F", "G", "H", "I", "J", "K", "L", "M",
      "N", "O", "P", "Q", "R", "S", "T", "U", "V", "W", "X", "Y", "Z">>
LowerLetters ==
    <<"a", "b", "c", "d", "e", "f", "g", "h", "i", "j", "k", "l", "m",
      "n", "o", "p", "q", "r", "s", "t", "u", "v", "w", "x", "y", "z">>

\* str.lower() on the letters of the ASCII alphabet
Lower(s) ==
    [i \in DOMAIN s |->
        IF \E k \in DOMAIN UpperLetters : UpperLetters[k] = s[i]
        THEN LowerLetters[CHOOSE k \in DOMAIN UpperLetters : UpperLetters[k] = s[i]]
        ELSE s[i]]

\* sub in s, for two str
Contains(s, sub) ==
    \E i \in 0..(Len(s) - Len(sub)) : SubSeq(s, i + 1, i + Len(sub)) = sub

\* a filter argument that is None or the empty str is not applied
Falsy(x) == IF x = None THEN TRUE ELSE x = <<>>

\* the tests of find_node_by_name on one node
NameMatches(data, name, node_type, file_pattern, exact) ==
    LET node_name == Get(data, "name", <<>>)
    IN  /\ IF exact THEN node_name = name
                    ELSE Contains(Lower(node_name), Lower(name))
        /\ ~(node_type # None /\ Get(data, "type", None) # node_type)
        /\ Falsy(file_pattern)
           \/ Contains(Lower(Get(data, "file_path", <<>>)), Lower(file_pattern))

NameMatch(G, node_id) ==
    LET data == NodeData(G, node_id)
    IN  [id         |-> node_id,
         name       |-> Get(data, "name", <<>>),
         type       |-> Get(data, "type", "UNKNOWN"),
         file       |-> _short_path(Get(data, "file_path", <<>>)),
         line       |-> Get(data, "line_number", 0),
         confidence |-> Get(data, "confidence", "high")]

\* find_node_by_name(name, node_type, file_pattern, exact), nodes being
\* list(self.graph.nodes): the ids in the order the graph iterates in
find_node_by_name(G, nodes, name, node_type, file_pattern, exact) ==
    LET Matches(node_id) ==
            NameMatches(NodeData(G, node_id), name, node_type, file_pattern, exact)
        matching == SelectSeq(nodes, Matches)
    IN  [i \in DOMAIN matching |-> NameMatch(G, matching[i])]

FlowStep(node_id, node_name, node_type, file_path, line_number, action, context, code_snippet) ==
    [node_id |-> node_id, node_name |-> node_name, node_type |-> node_type,
     file_path |-> file_path, line_number |-> line_number, action |-> action,
     context |-> context, code_snippet |-> code_snippet]

\* SignalFlowResult(signal_name=signal_name)
SignalFlowResult(signal_name) ==
    [signal_name |-> signal_name, signal_id |-> None, found |-> FALSE,
     definition |-> None, emissions |-> <<>>, connections |-> <<>>,
     handlers |-> <<>>]

Definition(G, signal_match) ==
    FlowStep(signal_match.id, signal_match.name, "SIGNAL",
             _short_path(signal_match.file), signal_match.line, "DEFINE", <<>>,
             Get(NodeData(G, signal_match.id), "code_snippet", <<>>))

\* the emissions found on the in-edges of the signal, from sources on
RECURSIVE Emissions(_, _, _)
Emissions(G, signal_id, sources) ==
    IF sources = <<>> THEN <<>>
    ELSE LET source == Head(sources)
             source_data == NodeData(G, source)
             edge_data == EdgeData(G, source, signal_id)
             rest == Emissions(G, signal_id, Tail(sources))
         IN  IF Get(edge_data, "relationship", None) = "EMITS"
             THEN <<FlowStep(source,
                             Get(source_data, "name", source),
                             Get(source_data, "type", "UNKNOWN"),
                             _short_path(Get(source_data, "file_path", <<>>)),
                             Get(source_data, "line_number", 0),
                             "EMIT",
                             Get(edge_data, "context", <<>>),
                             <<>>)>> \o rest
             ELSE rest

\* the entry of a connection found on a CONNECTS_TO edge of the signal
EdgeConnection(G, signal_name, target) ==
    LET target_data == NodeData(G, target)
        metadata == Get(target_data, "metadata", EmptyDict)
    IN  [signal     |-> signal_name,
         handler    |-> Get(metadata, "handler", Get(target_data, "name", <<>>)),
         file       |-> _short_path(Get(target_data, "file_path", <<>>)),
         line       |-> Get(target_data, "line_number", 0),
         defined_in |-> Get(metadata, "defined_in_scene", "code")]

\* the entry of a connection found by its metadata
ScannedConnection(signal_name, data) ==
    LET metadata == Get(data, "metadata", EmptyDict)
    IN  [signal     |-> signal_name,
         handler    |-> Get(metadata, "handler", <<>>),
         file       |-> _short_path(Get(data, "file_path", <<>>)),
         line       |-> Get(data, "line_number", 0),
         defined_in |-> IF Get(metadata, "defined_in_scene", FALSE) = TRUE
                        THEN "scene" ELSE "code"]

\* the handlers found on the out-edges of a connection, from handlers on
RECURSIVE Handlers(_, _)
Handlers(G, handlers) ==
    IF handlers = <<>> THEN <<>>
    ELSE LET handler == Head(handlers)
             handler_data == NodeData(G, handler)
             rest == Handlers(G, Tail(handlers))
         IN  IF Get(handler_data, "type", None) = "FUNCTION"
             THEN <<FlowStep(handler,
                             Get(handler_data, "name", handler),
                             "FUNCTION",
                             _short_path(Get(handler_data, "file_path", <<>>)),
                             Get(handler_data, "line_number", 0),
                             "HANDLE", <<>>, <<>>)>> \o rest
             ELSE rest

IsConnection(G, signal_id, target) ==
    /\ Get(EdgeData(G, signal_id, target), "relationship", None) = "CONNECTS_TO"
    /\ Get(NodeData(G, target), "type", None) = "SIGNAL_CONNECTION"

\* the loop over the out-edges of the signal, from targets on
RECURSIVE Connections(_, _, _, _, _)
Connections(G, signal_name, signal_id, targets, flow) ==
    IF targets = <<>> THEN flow
    ELSE LET target == Head(targets)
             found == IF IsConnection(G, signal_id, target)
                      THEN [flow EXCEPT
                              !.connections =
                                  Append(@, EdgeConnection(G, signal_name, target)),
                              !.handlers = @ \o Handlers(G, Successors(G, target))]
                      ELSE flow
         IN  Connections(G, signal_name, signal_id, Tail(targets), found)

\* the loop over signal_matches
RECURSIVE TraceMatches(_, _, _, _)
TraceMatches(G, signal_name, signal_matches, flow) ==
    IF signal_matches = <<>> THEN flow
    ELSE LET signal_match == Head(signal_matches)
             signal_id == signal_match.id
             defined == [flow EXCEPT
                           !.signal_id = signal_id,
                           !.definition = Definition(G, signal_match),
                           !.emissions =
                               @ \o Emissions(G, signal_id, Predecessors(G, signal_id))]
             connected == Connections(G, signal_name, signal_id,
                                      Successors(G, signal_id), defined)
         IN  TraceMatches(G, signal_name, Tail(signal_matches), connected)

NamesSignal(data, signal_name) ==
    LET metadata == Get(data, "metadata", EmptyDict)
    IN  /\ Get(data, "type", None) = "SIGNAL_CONNECTION"
        /\ "signal" \in DOMAIN metadata
        /\ metadata["signal"] = signal_name

\* the loop over the SIGNAL_CONNECTION nodes of the graph, from nodes on
RECURSIVE ScanConnections(_, _, _, _)
ScanConnections(G, signal_name, nodes, connections) ==
    IF nodes = <<>> THEN connections
    ELSE LET data == NodeData(G, Head(nodes))
             metadata == Get(data, "metadata", EmptyDict)
             conn_key == <<Get(metadata, "handler", <<>>), Get(data, "file_path", <<>>)>>
             existing == {<<connections[i].handler, connections[i].file>> :
                             i \in DOMAIN connections}
             scanned == IF NamesSignal(data, signal_name) /\ conn_key \notin existing
                        THEN Append(connections, ScannedConnection(signal_name, data))
                        ELSE connections
         IN  ScanConnections(G, signal_name, Tail(nodes), scanned)

\* trace_signal_flow(signal_name), nodes being list(self.graph.nodes)
trace_signal_flow(G, nodes, signal_name) ==
    LET signal_matches == find_node_by_name(G, nodes, signal_name, "SIGNAL", None, FALSE)
        empty == SignalFlowResult(signal_name)
    IN  IF signal_matches = <<>> THEN empty
        ELSE LET traced == TraceMatches(G, signal_name, signal_matches,
                                        [empty EXCEPT !.found = TRUE])
             IN  [traced EXCEPT
                    !.connections = ScanConnections(G, signal_name, nodes, @)]

-----------------------------------------------------------------------------
(* FlowTracer.trace_execution_path.                                        *)

IsCall(G, u, v) == Get(EdgeData(G, u, v), "relationship", None) = "CALLS"

\* nx.DiGraph(call_edges): the graph of the CALLS edges alone, its nodes the
\* endpoints of these edges without attributes; nodes is list(self.graph.nodes)
CallGraph(G, nodes) ==
    LET call_edges == {e \in DOMAIN G.data : IsCall(G, e[1], e[2])}
        ends == {e[1] : e \in call_edges} \cup {e[2] : e \in call_edges}
        CallsOut(u) == LET Called(v) == <<u, v>> \in call_edges
                       IN  SelectSeq(G.succ[u], Called)
        CallsIn(v) == LET Calling(u) == <<u, v>> \in call_edges /\ v \in Range(G.succ[u])
                      IN  SelectSeq(nodes, Calling)
    IN  [node |-> [n \in ends |-> EmptyDict],
         succ |-> [n \in ends |-> CallsOut(n)],
         pred |-> [n \in ends |-> CallsIn(n)],
         data |-> [e \in call_edges |-> EmptyDict]]

ExecutionPathResult(start_function, end_function) ==
    [start_function |-> start_function, end_function |-> end_function,
     found |-> FALSE, paths |-> <<>>, total_paths |-> 0, shortest_length |-> 0]

\* the paths found from one start node to the end nodes, from end_matches on
RECURSIVE PathsToEnds(_, _, _, _)
PathsToEnds(C, start_id, end_matches, max_depth) ==
    IF end_matches = <<>> THEN <<>>
    ELSE LET end_id == Head(end_matches).id
             paths == IF ~InGraph(C, start_id) \/ ~InGraph(C, end_id) THEN <<>>
                      ELSE all_simple_paths(C, start_id, end_id, max_depth)
         IN  paths \o PathsToEnds(C, start_id, Tail(end_matches), max_depth)

\* the loop over the combinations of start and end, from start_matches on
RECURSIVE PathsFromStarts(_, _, _, _)
PathsFromStarts(C, start_matches, end_matches, max_depth) ==
    IF start_matches = <<>> THEN <<>>
    ELSE PathsToEnds(C, Head(start_matches).id, end_matches, max_depth)
         \o PathsFromStarts(C, Tail(start_matches), end_matches, max_depth)

\* f"CALLS {name}()"
CallsAction(name) == <<"C", "A", "L", "L", "S", " ">> \o name \o <<"(", ")">>

ExecutionStep(G, path_nodes, i) ==
    LET node_id == path_nodes[i]
        node_data == NodeData(G, node_id)
        action == IF i < Len(path_nodes)
                  THEN CallsAction(Get(NodeData(G, path_nodes[i + 1]), "name", <<"?">>))
                  ELSE <<>>
    IN  FlowStep(node_id,
                 Get(node_data, "name", node_id),
                 "FUNCTION",
                 _short_path(Get(node_data, "file_path", <<>>)),
                 Get(node_data, "line_number", 0),
                 action, <<>>, <<>>)

\* the paths shown, taken from the list in the order of discovery
ShownPathsUnsorted(all_paths) == Slice(all_paths, 5)

\* all_paths.sort(key=len); all_paths[:5]
ShownPaths(all_paths) == Slice(SortByLen(all_paths), 5)

\* trace_execution_path(start_function, end_function, max_depth), nodes being
\* list(self.graph.nodes)
trace_execution_path(G, nodes, start_function, end_function, max_depth) ==
    LET empty == ExecutionPathResult(start_function, end_function)
        start_matches == find_node_by_name(G, nodes, start_function, "FUNCTION", None, FALSE)
        end_matches == find_node_by_name(G, nodes, end_function, "FUNCTION", None, FALSE)
    IN  IF start_matches = <<>> \/ end_matches = <<>> THEN empty
        ELSE LET all_paths == PathsFromStarts(CallGraph(G, nodes), start_matches,
                                              end_matches, max_depth)
                 shown == ShownPaths(all_paths)
             IN  IF all_paths = <<>> THEN empty
                 ELSE [empty EXCEPT
                         !.found = TRUE,
                         !.total_paths = Len(all_paths),
                         !.shortest_length = ShortestLength(all_paths),
                         !.paths = [k \in DOMAIN shown |->
                                       [i \in DOMAIN shown[k] |->
                                           ExecutionStep(G, shown[k], i)]]]

-----------------------------------------------------------------------------
(* FlowTracer.trace_variable_flow.                                         *)

\* VariableFlowResult(variable_name=variable_name)
VariableFlowResult(variable_name) ==
    [variable_name |-> variable_name, variable_id |-> None, found |-> FALSE,
     definition |-> None, writes |-> <<>>, reads |-> <<>>, total_usages |-> 0]

\* the step made of one in-edge of the variable
UsageStep(G, source, var_id) ==
    LET source_data == NodeData(G, source)
        edge_data == EdgeData(G, source, var_id)
    IN  FlowStep(source,
                 Get(source_data, "name", source),
                 Get(source_data, "type", "UNKNOWN"),
                 _short_path(Get(source_data, "file_path", <<>>)),
                 Get(source_data, "line_number", 0),
                 Get(edge_data, "relationship", ""),
                 Get(edge_data, "context", <<>>),
                 <<>>)

\* the loop over the in-edges of one variable, from sources on
RECURSIVE VariableUsages(_, _, _, _)
VariableUsages(G, var_id, sources, flow) ==
    IF sources = <<>> THEN flow
    ELSE LET step == UsageStep(G, Head(sources), var_id)
             next == IF step.action = "WRITES"
                     THEN [flow EXCEPT !.writes = Append(@, step)]
                     ELSE IF step.action = "READS"
                          THEN [flow EXCEPT !.reads = Append(@, step)]
                          ELSE flow
         IN  VariableUsages(G, var_id, Tail(sources), next)

\* the loop over the matching variables, from matches on: variable_id and
\* definition are those of the last match, writes and reads those of all
RECURSIVE VariableMatches(_, _, _)
VariableMatches(G, matches, flow) ==
    IF matches = <<>> THEN flow
    ELSE LET var_match == Head(matches)
             var_id == var_match.id
             defined == [flow EXCEPT
                            !.variable_id = var_id,
                            !.definition =
                                FlowStep(var_id, var_match.name, "VARIABLE",
                                         _short_path(var_match.file), var_match.line,
                                         "DEFINE", <<>>,
                                         Get(NodeData(G, var_id), "code_snippet", <<>>))]
         IN  VariableMatches(G, Tail(matches),
                             VariableUsages(G, var_id, Predecessors(G, var_id), defined))

\* trace_variable_flow(variable_name, starting_file), nodes being
\* list(self.graph.nodes)
trace_variable_flow(G, nodes, variable_name, starting_file) ==
    LET empty == VariableFlowResult(variable_name)
        matches == find_node_by_name(G, nodes, variable_name, "VARIABLE",
                                     starting_file, FALSE)
    IN  IF matches = <<>> THEN empty
        ELSE LET flow == VariableMatches(G, matches, [empty EXCEPT !.found = TRUE])
             IN  [flow EXCEPT !.total_usages = Len(flow.writes) + Len(flow.reads)]

-----------------------------------------------------------------------------
(* DependencyAnalyzer.find_highly_coupled_nodes.                           *)

CoupledNode(G, node_id) ==
    LET data == G.node[node_id]
        in_degree == Len(G.pred[node_id])
        out_degree == Len(G.succ[node_id])
    IN  [id                |-> node_id,
         name              |-> Get(data, "name", node_id),
         type              |-> Get(data, "type", "UNKNOWN"),
         file              |-> _short_path(Get(data, "file_path", <<>>)),
         line              |-> Get(data, "line_number", 0),
         in_degree         |-> in_degree,
         out_degree        |-> out_degree,
         total_connections |-> in_degree + out_degree]

\* results.sort(key=lambda x: -x["total_connections"]): stable, descending
RECURSIVE InsertByConnections(_, _)
InsertByConnections(sorted, entry) ==
    IF sorted = <<>> THEN <<entry>>
    ELSE IF Head(sorted).total_connections >= entry.total_connections
         THEN <<Head(sorted)>> \o InsertByConnections(Tail(sorted), entry)
         ELSE <<entry>> \o sorted

RECURSIVE SortByConnections(_)
SortByConnections(entries) ==
    IF entries = <<>> THEN <<>>
    ELSE InsertByConnections(SortByConnections(SubSeq(entries, 1, Len(entries) - 1)),
                             entries[Len(entries)])

\* find_highly_coupled_nodes(min_connections), nodes being
\* list(self.graph.nodes())
find_highly_coupled_nodes(G, nodes, min_connections) ==
    LET Coupled(node_id) ==
            Len(G.pred[node_id]) + Len(G.succ[node_id]) >= min_connections
        coupled == SelectSeq(nodes, Coupled)
    IN  SortByConnections([i \in DOMAIN coupled |-> CoupledNode(G, coupled[i])])

-----------------------------------------------------------------------------
(* The graph the queries share.  GraphQueries, DependencyAnalyzer and       *)
(* FlowTracer hold the builder's graph itself (self.graph = builder.graph), *)
(* not a copy, so a write by one of them would show in every other.  They   *)
(* read it, build graphs of their own from its edges (nx.DiGraph(edges)),   *)
(* and in one place hand it to a search of networkx:                        *)
(* detect_circular_dependencies searches self.graph itself when edge_types  *)
(* is None or empty.                                                        *)

\* a search that drops the self-loops of the graph it is given
simple_cycles_in_place(G) ==
    LET Others(n, ids) == LET Other(m) == m # n IN SelectSeq(ids, Other)
    IN  [G EXCEPT !.succ = [n \in DOMAIN G.succ |-> Others(n, G.succ[n])],
                  !.pred = [n \in DOMAIN G.pred |-> Others(n, G.pred[n])],
                  !.data = [edge \in {x \in DOMAIN G.data : x[1] # x[2]} |-> G.data[edge]]]

\* the graph handed to nx.simple_cycles, after the search: networkx >= 3.2.1
\* lists the self-loops, then searches a DiGraph of its own made of the
\* other edges, and leaves the graph it was given as it is
simple_cycles_leaves(G) == G

\* self.graph after a query has run
GraphAfterQuery(G, op, edge_types) ==
    IF op = "detect_circular_dependencies" /\ Falsy(edge_types)
    THEN simple_cycles_leaves(G)
    ELSE G

-----------------------------------------------------------------------------
(* GraphBuilder.build_graph and clear.  A file of the project is a record   *)
(* of its path and of what the extractor makes of its content: a parse      *)
(* result, or an exception.  file_hashes is never written and is left out.  *)

\* Path.suffix: the last dot of the final component and what follows it
LastIndexOf(s, chars) ==
    LET found == {i \in DOMAIN s : s[i] \in chars}
    IN  IF found = {} THEN 0 ELSE CHOOSE i \in found : \A j \in found : j <= i

Suffix(file_path) ==
    LET slash == LastIndexOf(file_path, {"/"})
        dot == LastIndexOf(file_path, {"."})
    IN  IF dot > slash + 1 /\ dot < Len(file_path)
        THEN SubSeq(file_path, dot, Len(file_path))
        ELSE <<>>

SuffixGd == <<".", "g", "d">>
SuffixTscn == <<".", "t", "s", "c", "n">>
SuffixTs == <<".", "t", "s">>
SuffixJs == <<".", "j", "s">>

\* ParseResult(file_path, file_hash, nodes, edges, errors, warnings)
ParseResultOf(file_path, file_hash, nodes, edges, errors, warnings) ==
    [file_path |-> file_path, file_hash |-> file_hash, nodes |-> nodes,
     edges |-> edges, errors |-> errors, warnings |-> warnings]

\* what the extractor does with the content of a file
Extracted(file_hash, nodes, edges, errors, warnings) ==
    [raises |-> FALSE, file_hash |-> file_hash, nodes |-> nodes, edges |-> edges,
     errors |-> errors, warnings |-> warnings]
Raising(message) == [raises |-> TRUE, message |-> message]

ProjectFile(file_path, extraction) == [file_path |-> file_path, extraction |-> extraction]

\* a fault of the extractor ends the build
_parse_file_raising(file) ==
    IF Suffix(file.file_path) \in {SuffixGd, SuffixTscn}
    THEN IF file.extraction.raises THEN [raised |-> file.extraction.message]
         ELSE ParseResultOf(file.file_path, file.extraction.file_hash,
                            file.extraction.nodes, file.extraction.edges,
                            file.extraction.errors, file.extraction.warnings)
    ELSE NoneDict

\* GraphBuilder._parse_file(file_path)
_parse_file(file) ==
    IF Suffix(file.file_path) \in {SuffixGd, SuffixTscn}
    THEN IF file.extraction.raises
         THEN ParseResultOf(file.file_path, <<>>, <<>>, <<>>,
                            <<file.extraction.message>>, <<>>)
         ELSE ParseResultOf(file.file_path, file.extraction.file_hash,
                            file.extraction.nodes, file.extraction.edges,
                            file.extraction.errors, file.extraction.warnings)
    ELSE NoneDict

\* GraphStatistics()
GraphStatistics ==
    [total_files |-> 0, gdscript_files |-> 0, tscn_files |-> 0, typescript_files |-> 0,
     total_nodes |-> 0, total_edges |-> 0, nodes_by_type |-> EmptyDict,
     edges_by_type |-> EmptyDict, ambiguous_nodes |-> 0, low_confidence_edges |-> 0,
     parse_errors |-> <<>>, parse_warnings |-> <<>>]

\* the builder: its graph and its stored parse results
Builder(G, stored) == [graph |-> G, parse_results |-> stored]

\* the file counters of the statistics
CountFile(stats, file_path) ==
    IF Suffix(file_path) = SuffixGd THEN [stats EXCEPT !.gdscript_files = @ + 1]
    ELSE IF Suffix(file_path) = SuffixTscn THEN [stats EXCEPT !.tscn_files = @ + 1]
    ELSE IF Suffix(file_path) \in {SuffixTs, SuffixJs}
         THEN [stats EXCEPT !.typescript_files = @ + 1]
    ELSE stats

\* the loop of build_graph over the files, from files on; a fault that
\* _parse_file lets through ends the call
RECURSIVE BuildLoop(_, _, _)
BuildLoop(B, files, stats) ==
    IF files = <<>> THEN [builder |-> B, stats |-> stats, raised |-> None]
    ELSE LET file == Head(files)
             parsed == _parse_file(file)
         IN  IF parsed = NoneDict THEN BuildLoop(B, Tail(files), stats)
             ELSE IF "raised" \in DOMAIN parsed
                  THEN [builder |-> B, stats |-> stats, raised |-> parsed.raised]
             ELSE BuildLoop(
                      Builder(_add_parse_result_to_graph(B.graph, parsed),
                              [k \in (DOMAIN B.parse_results) \cup {file.file_path} |->
                                  IF k = file.file_path THEN parsed
                                  ELSE B.parse_results[k]]),
                      Tail(files),
                      [CountFile(stats, file.file_path) EXCEPT
                          !.parse_errors = @ \o parsed.errors,
                          !.parse_warnings = @ \o parsed.warnings])

\* the counts that end build_graph
CountGraph(G, stats) ==
    LET TypeOf(n) == Get(G.node[n], "type", "UNKNOWN")
        RelationshipOfEdge(e) == Get(G.data[e], "relationship", "UNKNOWN")
    IN  [stats EXCEPT
           !.total_nodes = Cardinality(DOMAIN G.node),
           !.total_edges = NumberOfEdges(G),
           !.nodes_by_type =
               [t \in {TypeOf(n) : n \in DOMAIN G.node} |->
                   Cardinality({n \in DOMAIN G.node : TypeOf(n) = t})],
           !.ambiguous_nodes =
               Cardinality({n \in DOMAIN G.node :
                               Get(G.node[n], "confidence", None) = "ambiguous"}),
           !.edges_by_type =
               [t \in {RelationshipOfEdge(e) : e \in DOMAIN G.data} |->
                   Cardinality({e \in DOMAIN G.data : RelationshipOfEdge(e) = t})],
           !.low_confidence_edges =
               Cardinality({e \in DOMAIN G.data :
                               Get(G.data[e], "confidence", None) \in {"low", "ambiguous"}})]

\* a build that starts from an empty builder
build_graph_afresh(B, files) ==
    LET built == BuildLoop(Builder(EmptyGraph, EmptyDict), files,
                           [GraphStatistics EXCEPT !.total_files = Len(files)])
    IN  IF built.raised # None THEN built
        ELSE [built EXCEPT !.stats = CountGraph(built.builder.graph, @)]

\* build_graph(files): the builder after the call and the statistics returned
build_graph(B, files) ==
    LET built == BuildLoop(B, files, [GraphStatistics EXCEPT !.total_files = Len(files)])
    IN  IF built.raised # None THEN built
        ELSE [built EXCEPT !.stats = CountGraph(built.builder.graph, @)]

\* clear()
clear(B) == Builder(EmptyGraph, EmptyDict)

-----------------------------------------------------------------------------
(* GraphBuilder.export_json and import_json.  The file holds the dict that *)
(* json.dump writes: the builder stores str, int, bool, None, list and     *)
(* dict with str keys only, which json.load gives back as they were.       *)

\* dict without the keys popped from it
Without(d, keys) == [k \in (DOMAIN d) \ keys |-> d[k]]

\* {"id": node_id, **node_data}
ExportedNode(G, node_id) == Update([id |-> node_id], G.node[node_id])

\* {"source": source, "target": target, **edge_data}
ExportedEdge(G, source, target) ==
    Update([source |-> source, target |-> target], G.data[<<source, target>>])

\* the edges in the order self.graph.edges iterates in: node by node, the
\* out-edges of each in their order
RECURSIVE ExportedEdges(_, _)
ExportedEdges(G, nodes) ==
    IF nodes = <<>> THEN <<>>
    ELSE [i \in DOMAIN G.succ[Head(nodes)] |->
             ExportedEdge(G, Head(nodes), G.succ[Head(nodes)][i])]
         \o ExportedEdges(G, Tail(nodes))

FormatV1 == "reach_code_graph_v1"

\* the data export_json writes, nodes being list(self.graph.nodes)
export_json(G, nodes, project_root) ==
    [format |-> FormatV1,
     project_root |-> project_root,
     nodes |-> [i \in DOMAIN nodes |-> ExportedNode(G, nodes[i])],
     edges |-> ExportedEdges(G, nodes)]

RECURSIVE ImportNodes(_, _)
ImportNodes(G, nodes) ==
    IF nodes = <<>> THEN G
    ELSE ImportNodes(add_node(G, Head(nodes).id, Without(Head(nodes), {"id"})), Tail(nodes))

RECURSIVE ImportEdges(_, _)
ImportEdges(G, edges) ==
    IF edges = <<>> THEN G
    ELSE ImportEdges(add_edge(G, Head(edges).source, Head(edges).target,
                              Without(Head(edges), {"source", "target"})),
                     Tail(edges))

\* an import that merges the file into the graph it finds
import_json_merging(G, data) ==
    ImportEdges(ImportNodes(G, Get(data, "nodes", <<>>)), Get(data, "edges", <<>>))

\* import_json: the graph is cleared, then filled from the data read
import_json(G, data) ==
    ImportEdges(ImportNodes(EmptyGraph, Get(data, "nodes", <<>>)), Get(data, "edges", <<>>))

-----------------------------------------------------------------------------
(* The extractors' output the model draws from.  A node id is derived from *)
(* the node's type, file, name and line (BaseParser.generate_node_id), so  *)
(* each id of the model stands for one entity.                             *)

FilePlayer == <<"/", "s", "/", "p", ".", "g", "d">>
FileMainGd == <<"F", ":", "\\", "R", "e", "a", "c", "h", "\\", "x", "\\",
                "m", "a", "i", "n", ".", "g", "d">>
FileMainTscn == <<"F", ":", "/", "R", "e", "a", "c", "h", "/", "x", "/",
                  "m", "a", "i", "n", ".", "t", "s", "c", "n">>

NameRun == <<"r", "u", "n">>
NameHelper == <<"_", "h", "e", "l", "p", "e", "r">>
NameReady == <<"_", "r", "e", "a", "d", "y">>
NameMain == <<"M", "a", "i", "n">>
NameHit == <<"h", "i", "t">>

ParsedNode(id, type, name, file_path, line_number, language, metadata, confidence) ==
    [id |-> id, type |-> type, name |-> name, file_path |-> file_path,
     line_number |-> line_number, language |-> language, code_snippet |-> <<>>,
     metadata |-> metadata, confidence |-> confidence]

ParsedEdge(source_id, target_id, relationship, confidence) ==
    [source_id |-> source_id, target_id |-> target_id, relationship |-> relationship,
     context |-> <<>>, metadata |-> EmptyDict, confidence |-> confidence]

ParseResult(nodes, edges) == [nodes |-> nodes, edges |-> edges]

FnRun == ParsedNode("fn_run", "FUNCTION", NameRun, FilePlayer, 3, "gdscript", EmptyDict, "high")
FnHelper == ParsedNode("fn_helper", "FUNCTION", NameHelper, FilePlayer, 7, "gdscript", EmptyDict, "low")
FnReady == ParsedNode("fn_ready", "FUNCTION", NameReady, FilePlayer, 9, "gdscript", EmptyDict, "medium")

\* the entities and relations of the path and dependency queries
PathIds == {"fn_run", "fn_helper", "fn_ready"}
PathNodes == {FnRun, FnHelper, FnReady}
PathEdges ==
    {ParsedEdge("fn_run", "fn_helper", "CALLS", "high"),
     ParsedEdge("fn_run", "fn_helper", "EMITS", "ambiguous"),
     ParsedEdge("fn_helper", "fn_ready", "CALLS", "low"),
     ParsedEdge("fn_run", "fn_ready", "CALLS", "low"),
     ParsedEdge("fn_run", "fn_ready", "READS", "medium"),
     ParsedEdge("fn_ready", "fn_run", "EMITS", "ambiguous"),
     ParsedEdge("fn_helper", "fn_run", "CALLS", "high"),
     ParsedEdge("fn_ready", "fn_helper", "CALLS", "high"),
     ParsedEdge("fn_run", "fn_run", "CALLS", "high")}

ClassMain == ParsedNode("class_main", "CLASS", NameMain, FileMainGd, 1, "gdscript", EmptyDict, "high")
SignalHit == ParsedNode("signal_hit", "SIGNAL", NameHit, FilePlayer, 2, "gdscript", EmptyDict, "high")
SceneMain == ParsedNode("scene_main", "SCENE", NameMain, FileMainTscn, 1, "scene", EmptyDict, "high")
ConnScene ==
    ParsedNode("conn_scene", "SIGNAL_CONNECTION", NameHit, FileMainTscn, 5, "scene",
               [signal |-> NameHit, defined_in_scene |-> TRUE], "high")
ConnCode ==
    ParsedNode("conn_code", "SIGNAL_CONNECTION", NameHit, FilePlayer, 8, "gdscript",
               [signal |-> NameHit], "high")

\* the entities and relations of the dead-code analysis
DeadNodes == {FnRun, FnHelper, FnReady, ClassMain, SignalHit, SceneMain, ConnScene, ConnCode}
DeadEdges ==
    {ParsedEdge("fn_ready", "fn_run", "CALLS", "high"),
     ParsedEdge("fn_run", "fn_ready", "CALLS", "high"),
     ParsedEdge("fn_run", "fn_helper", "CALLS", "high"),
     ParsedEdge("fn_helper", "fn_run", "CALLS", "high"),
     ParsedEdge("fn_run", "signal_hit", "EMITS", "high"),
     ParsedEdge("fn_ready", "signal_hit", "EMITS", "high"),
     ParsedEdge("signal_hit", "conn_code", "CONNECTS_TO", "high"),
     ParsedEdge("conn_code", "fn_run", "CONNECTS_TO", "high"),
     ParsedEdge("scene_main", "conn_scene", "CONTAINS", "high"),
     ParsedEdge("conn_scene", "fn_helper", "CONNECTS_TO", "high"),
     ParsedEdge("class_main", "fn_run", "CONTAINS", "high"),
     ParsedEdge("fn_run", "class_main", "REFERENCES", "high")}

DeadParseResults ==
    {ParseResult(<<n>>, <<>>) : n \in DeadNodes}
    \cup {ParseResult(<<>>, <<e>>) : e \in DeadEdges}

PatternGd == <<"*", ".", "g", "d">>

\* the entry_points arguments: the default, no pattern, every script
EntryPointChoices == {None, <<>>, <<PatternGd>>}

\* the relations of the cycle analysis
CycleEdges ==
    {ParsedEdge("fn_run", "fn_helper", "CALLS", "high"),
     ParsedEdge("fn_run", "fn_helper", "REFERENCES", "high"),
     ParsedEdge("fn_helper", "fn_run", "CONNECTS_TO", "high"),
     ParsedEdge("fn_helper", "fn_run", "READS", "high"),
     ParsedEdge("fn_helper", "fn_ready", "CALLS", "high"),
     ParsedEdge("fn_helper", "fn_ready", "EMITS", "high"),
     ParsedEdge("fn_ready", "fn_run", "CALLS", "high"),
     ParsedEdge("fn_ready", "fn_run", "READS", "high"),
     ParsedEdge("fn_run", "fn_ready", "READS", "high"),
     ParsedEdge("fn_run", "fn_run", "CALLS", "high")}

CycleParseResults ==
    {ParseResult(<<n>>, <<>>) : n \in {FnRun, FnHelper}}
    \cup {ParseResult(<<>>, <<e>>) : e \in CycleEdges}

\* a file whose five entities call one another in a ring
RingFile ==
    ParseResult(<<FnRun, FnHelper, FnReady, ClassMain, SignalHit>>,
                <<ParsedEdge("fn_run", "fn_helper", "CALLS", "high"),
                  ParsedEdge("fn_helper", "fn_ready", "CALLS", "high"),
                  ParsedEdge("fn_ready", "class_main", "CALLS", "high"),
                  ParsedEdge("class_main", "signal_hit", "CALLS", "high"),
                  ParsedEdge("signal_hit", "fn_run", "CALLS", "high")>>)

\* a file with a function that calls itself and lies on two longer cycles
MeshFile ==
    ParseResult(<<FnRun, FnHelper, FnReady>>,
                <<ParsedEdge("fn_run", "fn_run", "CALLS", "high"),
                  ParsedEdge("fn_run", "fn_helper", "READS", "high"),
                  ParsedEdge("fn_helper", "fn_run", "READS", "high"),
                  ParsedEdge("fn_helper", "fn_ready", "EMITS", "high"),
                  ParsedEdge("fn_ready", "fn_run", "READS", "high")>>)

\* the edge_types arguments
EdgeTypeChoices == {None, <<>>, <<"CALLS">>, <<"READS", "REFERENCES">>}

\* the entities and relations of the impact analysis
ImpactIds == {"fn_run", "fn_helper", "fn_ready", "class_main"}
ImpactNodes == {FnRun, FnHelper, FnReady, ClassMain}
ImpactEdges ==
    {ParsedEdge("fn_run", "fn_helper", "CALLS", "high"),
     ParsedEdge("fn_helper", "fn_ready", "CALLS", "high"),
     ParsedEdge("fn_ready", "fn_run", "CALLS", "high"),
     ParsedEdge("fn_helper", "fn_run", "CALLS", "high"),
     ParsedEdge("fn_ready", "fn_ready", "CALLS", "high"),
     ParsedEdge("class_main", "fn_run", "CONTAINS", "high"),
     ParsedEdge("class_main", "fn_ready", "REFERENCES", "high"),
     ParsedEdge("fn_run", "class_main", "REFERENCES", "high")}

ImpactParseResults ==
    {ParseResult(<<n>>, <<>>) : n \in ImpactNodes}
    \cup {ParseResult(<<>>, <<e>>) : e \in ImpactEdges}

\* six scripts, each with one function that calls fn_run
CallerIds == <<"caller_a", "caller_b", "caller_c", "caller_d", "caller_e", "caller_f">>
CallerLetters == <<"a", "b", "c", "d", "e", "f">>

Caller(i, file_path) ==
    ParsedNode(CallerIds[i], "FUNCTION", NameRun, file_path, i, "gdscript", EmptyDict, "high")

CallerFile(i) ==
    ParseResult(<<Caller(i, <<"/", "d", "/", CallerLetters[i], ".", "g", "d">>)>>,
                <<ParsedEdge(CallerIds[i], "fn_run", "CALLS", "high")>>)

CrowdProject == [i \in DOMAIN CallerIds |-> CallerFile(i)]

\* one script with the six functions
CrowdFile ==
    ParseResult([i \in DOMAIN CallerIds |-> Caller(i, FilePlayer)],
                [i \in DOMAIN CallerIds |-> ParsedEdge(CallerIds[i], "fn_run", "CALLS", "high")])

\* the loop of build_graph over the parsed files
RECURSIVE AddParseResults(_, _)
AddParseResults(G, results) ==
    IF results = <<>> THEN G
    ELSE AddParseResults(_add_parse_result_to_graph(G, Head(results)), Tail(results))

RiskIds == {"fn_run", "fn_helper", "caller_a"}
RiskParseResults ==
    {ParseResult(<<FnRun>>, <<>>), ParseResult(<<ClassMain>>, <<>>),
     ParseResult(<<FnHelper>>, <<>>),
     ParseResult(<<>>, <<ParsedEdge("class_main", "fn_run", "CONTAINS", "high")>>),
     ParseResult(<<>>, <<ParsedEdge("fn_helper", "fn_run", "CALLS", "high")>>),
     ParseResult(<<>>, <<ParsedEdge("fn_run", "fn_helper", "CALLS", "high")>>)}

\* a file that defines one entity, one that holds one relation, and one
\* that defines an entity together with a relation out of it
PathParseResults ==
    {ParseResult(<<n>>, <<>>) : n \in PathNodes}
    \cup {ParseResult(<<>>, <<e>>) : e \in PathEdges}
    \cup UNION {{ParseResult(<<n>>, <<e>>) : e \in {x \in PathEdges : x.source_id = n.id}} :
                   n \in PathNodes}

\* the entities and relations of the signal trace: a script that declares
\* the signal hit, emits it and connects it to run (once from the script at
\* an absolute path, once from a script given by a relative path), and a
\* scene that connects the built-in signal pressed of a button
NamePressed == <<"p", "r", "e", "s", "s", "e", "d">>
NameHitShouted == <<"H", "I", "T">>
NameHitToRun == <<"h", "i", "t", " ", "-", ">", " ", "r", "u", "n">>
NamePressedToRun ==
    <<"B", ".", "p", "r", "e", "s", "s", "e", "d", " ", "-", ">", " ", ".", ".", "r", "u", "n">>
FileRelative == <<"q", ".", "g", "d">>

ConnRun ==
    ParsedNode("conn_run", "SIGNAL_CONNECTION", NameHitToRun, FilePlayer, 8, "gdscript",
               [signal |-> NameHit, handler |-> NameRun], "high")
ConnRelative ==
    ParsedNode("conn_relative", "SIGNAL_CONNECTION", NameHitToRun, FileRelative, 4,
               "gdscript", [signal |-> NameHit, handler |-> NameRun], "high")
ConnPressed ==
    ParsedNode("conn_pressed", "SIGNAL_CONNECTION", NamePressedToRun, FileMainTscn, 6,
               "scene",
               [signal |-> NamePressed, from_node |-> <<"B">>, to_node |-> <<".">>,
                method |-> NameRun, defined_in_scene |-> TRUE], "high")

SignalNodes == {SignalHit, FnRun, ConnRun, ConnRelative, ConnPressed, SceneMain}
SignalEdges ==
    {ParsedEdge("fn_run", "signal_hit", "EMITS", "high"),
     ParsedEdge("signal_hit", "conn_run", "CONNECTS_TO", "high"),
     ParsedEdge("signal_hit", "conn_relative", "CONNECTS_TO", "high"),
     ParsedEdge("conn_run", "fn_run", "CONNECTS_TO", "high"),
     ParsedEdge("scene_main", "conn_pressed", "CONTAINS", "high")}
SignalParseResults ==
    {ParseResult(<<n>>, <<>>) : n \in SignalNodes}
    \cup {ParseResult(<<>>, <<e>>) : e \in SignalEdges}
SignalNames == {NameHit, NameHitShouted, NamePressed}

\* the function names asked of the execution trace: a full name, and a
\* letter that the three names share
ExecutionEdges ==
    {ParsedEdge("fn_run", "fn_helper", "CALLS", "high"),
     ParsedEdge("fn_helper", "fn_ready", "CALLS", "low"),
     ParsedEdge("fn_run", "fn_ready", "CALLS", "low"),
     ParsedEdge("fn_helper", "fn_run", "CALLS", "high"),
     ParsedEdge("fn_run", "fn_run", "CALLS", "high"),
     ParsedEdge("fn_ready", "fn_run", "EMITS", "ambiguous")}
ExecutionParseResults ==
    {ParseResult(<<n>>, <<>>) : n \in PathNodes}
    \cup {ParseResult(<<>>, <<e>>) : e \in ExecutionEdges}
NameLetterR == <<"R">>
StartNames == {NameRun, NameLetterR}
EndNames == {NameReady, NameLetterR}

\* the graph of the concurrent queries: a function that calls itself and is
\* called by another, and a variable it writes
NameSpeed == <<"s", "p", "e", "e", "d">>
VarSpeed == ParsedNode("var_speed", "VARIABLE", NameSpeed, FilePlayer, 1, "gdscript", EmptyDict, "high")
ReaderParseResults ==
    {ParseResult(<<FnRun, VarSpeed>>, <<>>),
     ParseResult(<<>>, <<ParsedEdge("fn_run", "fn_run", "CALLS", "high"),
                         ParsedEdge("fn_helper", "fn_run", "CALLS", "high")>>),
     ParseResult(<<>>, <<ParsedEdge("fn_run", "var_speed", "WRITES", "high")>>)}
QueryThreads == {"t1", "t2"}
QueryOps ==
    {"find_path", "find_dependencies", "find_usages", "find_callers", "find_callees",
     "find_node_by_name", "detect_circular_dependencies", "detect_dead_code",
     "analyze_impact", "find_highly_coupled_nodes", "trace_variable_flow",
     "trace_signal_flow", "trace_execution_path"}

\* the files of a project: a script in two versions of its content (the
\* second without _helper, with run edited in place and reading where it
\* called), a scene that contains the script's function, a script the
\* extractor fails on, and a file no extractor is registered for
FileBroken == <<"/", "s", "/", "b", ".", "g", "d">>
FileReadme == <<"/", "s", "/", "r", ".", "m", "d">>

FnRunEdited ==
    ParsedNode("fn_run", "FUNCTION", NameRun, FilePlayer, 3, "gdscript",
               [params |-> <<"x">>], "ambiguous")

PlayerScript ==
    ProjectFile(FilePlayer,
                Extracted("hash_1", <<FnRun, FnHelper>>,
                          <<ParsedEdge("fn_run", "fn_helper", "CALLS", "high"),
                            ParsedEdge("fn_run", "fn_helper", "EMITS", "ambiguous")>>,
                          <<>>, <<>>))
PlayerScriptEdited ==
    ProjectFile(FilePlayer,
                Extracted("hash_2", <<FnRunEdited>>,
                          <<ParsedEdge("fn_run", "fn_helper", "READS", "medium")>>,
                          <<>>, <<"unresolved call">>))
MainScene ==
    ProjectFile(FileMainTscn,
                Extracted("hash_3", <<SceneMain>>,
                          <<ParsedEdge("scene_main", "fn_run", "CONTAINS", "high")>>,
                          <<>>, <<>>))
BrokenScript == ProjectFile(FileBroken, Raising("invalid start byte"))
Readme == ProjectFile(FileReadme, Extracted("hash_4", <<ClassMain>>, <<>>, <<>>, <<>>))

ProjectFiles == {PlayerScript, PlayerScriptEdited, MainScene, BrokenScript, Readme}

\* the lists of files a build is given: each path once
FileLists ==
    {files \in UNION {[1..n -> ProjectFiles] : n \in 0..MaxBuild} :
        \A i \in DOMAIN files, j \in DOMAIN files :
            files[i].file_path = files[j].file_path => i = j}

\* the parse results of the files an extractor handles without a fault
BuildParseResults ==
    {_parse_file(file) :
        file \in {f \in ProjectFiles : ~f.extraction.raises /\ _parse_file(f) # NoneDict}}

-----------------------------------------------------------------------------
(* The state machine.                                                      *)

\* One caller drives the builder and the query engine, one call at a time:
\* an operation starts when the caller holds no result, and leaves the value
\* it returns in `result` until the caller has taken it.
NoResult == [op |-> "none"]

\* create_app: no entry of app.config is set, no request is being served
NoConfig == [GRAPH_BUILDER |-> None, GRAPH_QUERIES |-> None, FLOW_TRACER |-> None,
             DEPENDENCY_ANALYZER |-> None]

ServerNotStarted ==
    /\ config = NoConfig
    /\ threads = EmptyDict

Idle == result = NoResult

Init ==
    /\ graph = EmptyGraph
    /\ result = NoResult
    /\ parse_results = EmptyDict
    /\ ServerNotStarted
    /\ exported = NoneDict

\* the caller takes the returned value
Return ==
    /\ ~Idle
    /\ result' = NoResult
    /\ UNCHANGED <<graph, parse_results, config, threads, exported>>

\* GraphBuilder._add_parse_result_to_graph(result)
AddParseResult(parse_result) ==
    /\ Idle
    /\ LET added == _add_parse_result_to_graph(graph, parse_result)
       IN  /\ NumberOfEdges(added) <= MaxEdges
           /\ Cardinality(DOMAIN added.node) <= MaxNodes
           /\ graph' = added
    /\ result' = NoResult
    /\ UNCHANGED <<parse_results, config, threads, exported>>

\* GraphBuilder.get_node(node_id)
GetNode(node_id) ==
    /\ Idle
    /\ result' = [op |-> "get_node", node_id |-> node_id,
                  value |-> get_node(graph, node_id)]
    /\ UNCHANGED <<graph, parse_results, config, threads, exported>>

\* GraphQueries.find_path(source_id, target_id, max_depth, max_paths)
FindPath(source_id, target_id, max_depth, max_paths) ==
    /\ Idle
    /\ result' = [op |-> "find_path", source_id |-> source_id, target_id |-> target_id,
                  max_depth |-> max_depth, max_paths |-> max_paths,
                  value |-> find_path(graph, source_id, target_id, max_depth, max_paths)]
    /\ UNCHANGED <<graph, parse_results, config, threads, exported>>

\* GraphQueries.find_dependencies(node_id, direction, depth)
FindDependencies(node_id, direction, depth) ==
    /\ Idle
    /\ result' = [op |-> "find_dependencies",
                  value |-> find_dependencies(graph, node_id, direction, depth)]
    /\ UNCHANGED <<graph, parse_results, config, threads, exported>>

\* DependencyAnalyzer.detect_dead_code(entry_points); entry_node_ids and the
\* walk of the worklist are kept beside the value returned
DetectDeadCode(entry_points, listed) ==
    /\ Idle
    /\ result' = [op |-> "detect_dead_code", entry_points |-> entry_points,
                  entry_node_ids |-> Range(listed),
                  walk |-> Reachability(graph, listed, {}, 0),
                  value |-> detect_dead_code(graph, entry_points, listed)]
    /\ UNCHANGED <<graph, parse_results, config, threads, exported>>

\* DependencyAnalyzer.detect_circular_dependencies(edge_types, max_cycles);
\* the list of cycles found is kept beside the value returned
DetectCircularDependencies(edge_types, max_cycles, cycles) ==
    /\ Idle
    /\ result' = [op |-> "detect_circular_dependencies", edge_types |-> edge_types,
                  max_cycles |-> max_cycles, found |-> cycles,
                  value |-> detect_circular_dependencies(graph, edge_types, max_cycles, cycles)]
    /\ UNCHANGED <<graph, parse_results, config, threads, exported>>

\* DependencyAnalyzer.analyze_impact(node_id, depth)
AnalyzeImpact(node_id, depth) ==
    /\ Idle
    /\ result' = [op |-> "analyze_impact", node_id |-> node_id, depth |-> depth,
                  value |-> analyze_impact(graph, node_id, depth)]
    /\ UNCHANGED <<graph, parse_results, config, threads, exported>>

\* the rating at the end of analyze_impact, applied to given numbers
RateRisk(total_affected, files) ==
    /\ Idle
    /\ result' = [op |-> "risk_level", total_affected |-> total_affected, files |-> files,
                  value |-> RiskLevel(total_affected, files)]
    /\ UNCHANGED <<graph, parse_results, config, threads, exported>>

\* GraphQueries.find_usages(node_id)
FindUsages(node_id) ==
    /\ Idle
    /\ result' = [op |-> "find_usages", node_id |-> node_id,
                  value |-> find_usages(graph, node_id)]
    /\ UNCHANGED <<graph, parse_results, config, threads, exported>>

\* GraphQueries.find_callers(function_id)
FindCallers(function_id) ==
    /\ Idle
    /\ result' = [op |-> "find_callers", node_id |-> function_id,
                  value |-> find_callers(graph, function_id)]
    /\ UNCHANGED <<graph, parse_results, config, threads, exported>>

\* GraphQueries.find_callees(function_id)
FindCallees(function_id) ==
    /\ Idle
    /\ result' = [op |-> "find_callees", node_id |-> function_id,
                  value |-> find_callees(graph, function_id)]
    /\ UNCHANGED <<graph, parse_results, config, threads, exported>>

\* GraphQueries.get_node_context(node_id)
GetNodeContext(node_id) ==
    /\ Idle
    /\ result' = [op |-> "get_node_context", node_id |-> node_id,
                  value |-> get_node_context(graph, node_id)]
    /\ UNCHANGED <<graph, parse_results, config, threads, exported>>

\* FlowTracer.trace_signal_flow(signal_name); nodes is the order the graph
\* iterates its nodes in, which is the order they were added in
TraceSignalFlow(signal_name, nodes) ==
    /\ Idle
    /\ result' = [op |-> "trace_signal_flow", signal_name |-> signal_name,
                  value |-> trace_signal_flow(graph, nodes, signal_name)]
    /\ UNCHANGED <<graph, parse_results, config, threads, exported>>

\* FlowTracer.trace_execution_path(start_function, end_function, max_depth)
TraceExecutionPath(start_function, end_function, max_depth, nodes) ==
    /\ Idle
    /\ result' = [op |-> "trace_execution_path", start_function |-> start_function,
                  end_function |-> end_function, max_depth |-> max_depth,
                  value |-> trace_execution_path(graph, nodes, start_function,
                                                 end_function, max_depth)]
    /\ UNCHANGED <<graph, parse_results, config, threads, exported>>

\* GraphBuilder.build_graph(files)
BuildGraph(files) ==
    /\ Idle
    /\ LET built == build_graph(Builder(graph, parse_results), files)
       IN  /\ graph' = built.builder.graph
           /\ parse_results' = built.builder.parse_results
           /\ result' = [op |-> "build_graph", files |-> files,
                         raised |-> built.raised, value |-> built.stats]
    /\ UNCHANGED <<config, threads, exported>>

\* GraphBuilder.clear()
Clear ==
    /\ Idle
    /\ LET cleared == clear(Builder(graph, parse_results))
       IN  /\ graph' = cleared.graph
           /\ parse_results' = cleared.parse_results
    /\ result' = [op |-> "clear", value |-> None]
    /\ UNCHANGED <<config, threads, exported>>

\* GraphBuilder.export_json(output_path); nodes is the order the graph
\* iterates its nodes in
ExportJson(nodes) ==
    /\ Idle
    /\ exported' = export_json(graph, nodes, PrefixReach)
    /\ result' = [op |-> "export_json", value |-> None]
    /\ UNCHANGED <<graph, parse_results, config, threads>>

\* GraphBuilder.import_json(input_path): open() raises when no file is there
ImportJson ==
    /\ Idle
    /\ IF exported = NoneDict
       THEN /\ result' = [op |-> "import_json", raised |-> "FileNotFoundError"]
            /\ UNCHANGED graph
       ELSE /\ result' = [op |-> "import_json", raised |-> None]
            /\ graph' = import_json(graph, exported)
    /\ UNCHANGED <<parse_results, config, threads, exported>>

\* the orders a query can meet that the graph of the model does not hold:
\* nodes is list(self.graph.nodes), cycles is list(nx.simple_cycles(subgraph))
\* and listed is list(entry_node_ids); a query takes the ones it uses
IterationOrders(G, op) ==
    LET unused == [nodes |-> <<>>, cycles |-> <<>>, listed |-> <<>>]
    IN  IF op \in {"find_node_by_name", "find_highly_coupled_nodes", "trace_variable_flow",
                   "trace_signal_flow", "trace_execution_path"}
        THEN {[unused EXCEPT !.nodes = nodes] : nodes \in ListOf(DOMAIN G.node)}
        ELSE IF op = "detect_circular_dependencies"
        THEN {[unused EXCEPT !.cycles = cycles] :
                 cycles \in simple_cycles(SubgraphEdges(G, None))}
        ELSE IF op = "detect_dead_code"
        THEN {[unused EXCEPT !.listed = listed] :
                 listed \in ListOf(EntryNodeIds(G, EntryPatterns(None)))}
        ELSE {unused}

\* the value a query returns on the graph G; every caller passes the same
\* arguments
RunQuery(G, op, order) ==
    CASE op = "find_path" -> find_path(G, "fn_helper", "fn_run", MaxDepth, MaxPaths)
      [] op = "find_dependencies" -> find_dependencies(G, "fn_helper", FORWARD, MaxDepth)
      [] op = "find_usages" -> find_usages(G, "fn_run")
      [] op = "find_callers" -> find_callers(G, "fn_run")
      [] op = "find_callees" -> find_callees(G, "fn_helper")
      [] op = "find_node_by_name" ->
             find_node_by_name(G, order.nodes, NameLetterR, None, None, FALSE)
      [] op = "detect_circular_dependencies" ->
             detect_circular_dependencies(G, None, MaxCycles, order.cycles)
      [] op = "detect_dead_code" -> detect_dead_code(G, None, order.listed)
      [] op = "analyze_impact" -> analyze_impact(G, "fn_run", MaxDepth)
      [] op = "find_highly_coupled_nodes" -> find_highly_coupled_nodes(G, order.nodes, 1)
      [] op = "trace_variable_flow" -> trace_variable_flow(G, order.nodes, NameSpeed, None)
      [] op = "trace_signal_flow" -> trace_signal_flow(G, order.nodes, NameHit)
      [] op = "trace_execution_path" ->
             trace_execution_path(G, order.nodes, NameHelper, NameRun, MaxDepth)

\* the builder merges a parse result while no query runs
Load(parse_result) ==
    /\ threads = EmptyDict
    /\ AddParseResult(parse_result)

\* a thread calls a query; seen is the graph as the call finds it
StartQuery(t, op) ==
    /\ t \notin DOMAIN threads
    /\ threads' = [k \in (DOMAIN threads) \cup {t} |->
                      IF k = t THEN [op |-> op, seen |-> graph] ELSE threads[k]]
    /\ UNCHANGED <<graph, result, parse_results, config, exported>>

\* the query of a thread runs on the graph as it is now, and returns
FinishQuery(t) ==
    /\ t \in DOMAIN threads
    /\ LET op == threads[t].op
       IN  /\ \E order \in IterationOrders(graph, op) :
                  result' = [op |-> op, seen |-> threads[t].seen, order |-> order,
                             value |-> RunQuery(graph, op, order)]
           /\ graph' = GraphAfterQuery(graph, op, None)
    /\ threads' = [k \in (DOMAIN threads) \ {t} |-> threads[k]]
    /\ UNCHANGED <<parse_results, config, exported>>

\* The HTTP server.  app.run(threaded=True) serves every request on a thread
\* of its own; a handler calls get_queries(), get_tracer() or get_analyzer(),
\* each of which calls get_builder() and then reads its entry of app.config.
\* threads[t] holds the getter thread t is in, its position in it and
\* whether it has run build_graph; the objects are named after the thread
\* that made them.
ServerThreads == {"t1", "t2"}
Getters == {"get_queries", "get_tracer", "get_analyzer"}

\* the entry of app.config a getter returns
ConfigKey(getter) ==
    CASE getter = "get_queries" -> "GRAPH_QUERIES"
      [] getter = "get_tracer" -> "FLOW_TRACER"
      [] getter = "get_analyzer" -> "DEPENDENCY_ANALYZER"

At(t, pc) == t \in DOMAIN threads /\ threads[t].pc = pc

Goto(t, pc) == threads' = [threads EXCEPT ![t].pc = pc]

\* a request arrives and its handler calls a getter, which calls get_builder()
Call(t, getter) ==
    /\ t \notin DOMAIN threads \/ At(t, "done")
    /\ threads' = [k \in (DOMAIN threads) \cup {t} |->
                      IF k = t
                      THEN [getter |-> getter, pc |-> "test",
                            built |-> IF t \in DOMAIN threads THEN threads[t].built
                                      ELSE FALSE]
                      ELSE threads[k]]
    /\ UNCHANGED <<graph, result, parse_results, config, exported>>

\* `if app.config["GRAPH_BUILDER"] is None:`
TestBuilder(t) ==
    /\ At(t, "test")
    /\ Goto(t, IF config.GRAPH_BUILDER = None THEN "build" ELSE "return")
    /\ UNCHANGED <<graph, result, parse_results, config, exported>>

\* builder = GraphBuilder(...); builder.build_graph()
BuildProject(t) ==
    /\ At(t, "build")
    /\ threads' = [threads EXCEPT ![t].pc = "set_builder", ![t].built = TRUE]
    /\ UNCHANGED <<graph, result, parse_results, config, exported>>

\* app.config["GRAPH_BUILDER"] = builder
SetBuilder(t) ==
    /\ At(t, "set_builder")
    /\ config' = [config EXCEPT !.GRAPH_BUILDER = "builder of " \o t]
    /\ Goto(t, "set_queries")
    /\ UNCHANGED <<graph, result, parse_results, exported>>

\* app.config["GRAPH_QUERIES"] = GraphQueries(builder.graph)
SetQueries(t) ==
    /\ At(t, "set_queries")
    /\ config' = [config EXCEPT !.GRAPH_QUERIES = "queries of " \o t]
    /\ Goto(t, "set_tracer")
    /\ UNCHANGED <<graph, result, parse_results, exported>>

\* app.config["FLOW_TRACER"] = FlowTracer(builder.graph, ...)
SetTracer(t) ==
    /\ At(t, "set_tracer")
    /\ config' = [config EXCEPT !.FLOW_TRACER = "tracer of " \o t]
    /\ Goto(t, "set_analyzer")
    /\ UNCHANGED <<graph, result, parse_results, exported>>

\* app.config["DEPENDENCY_ANALYZER"] = DependencyAnalyzer(builder.graph, ...)
SetAnalyzer(t) ==
    /\ At(t, "set_analyzer")
    /\ config' = [config EXCEPT !.DEPENDENCY_ANALYZER = "analyzer of " \o t]
    /\ Goto(t, "return")
    /\ UNCHANGED <<graph, result, parse_results, exported>>

\* `return app.config["GRAPH_BUILDER"]`: the getter drops the value
ReturnBuilder(t) ==
    /\ At(t, "return")
    /\ Goto(t, "read")
    /\ UNCHANGED <<graph, result, parse_results, config, exported>>

\* `return app.config[...]` of the getter
ReturnEntry(t) ==
    /\ At(t, "read")
    /\ result' = [op |-> threads[t].getter, thread |-> t,
                  value |-> config[ConfigKey(threads[t].getter)]]
    /\ Goto(t, "done")
    /\ UNCHANGED <<graph, parse_results, config, exported>>

NextPath ==
    \/ \E r \in PathParseResults : AddParseResult(r)
    \/ \E n \in PathIds : GetNode(n)
    \/ \E s \in PathIds, t \in PathIds, d \in 0..MaxDepth, k \in 0..MaxPaths :
           FindPath(s, t, d, k)
    \/ Return

SpecPath == Init /\ [][NextPath]_vars

NextDeps ==
    \/ \E r \in PathParseResults : AddParseResult(r)
    \/ \E n \in PathIds, dir \in {FORWARD, BACKWARD, BOTH}, d \in 0..MaxDepth :
           FindDependencies(n, dir, d)
    \/ Return

SpecDeps == Init /\ [][NextDeps]_vars

NextDead ==
    \/ \E r \in DeadParseResults : AddParseResult(r)
    \/ \E entry_points \in EntryPointChoices :
           \E listed \in ListOf(EntryNodeIds(graph, EntryPatterns(entry_points))) :
               DetectDeadCode(entry_points, listed)
    \/ Return

SpecDead == Init /\ [][NextDead]_vars

NextQueries ==
    \/ \E r \in PathParseResults : AddParseResult(r)
    \/ \E n \in PathIds, dir \in {FORWARD, BACKWARD, BOTH}, d \in 0..MaxDepth :
           FindDependencies(n, dir, d)
    \/ \E n \in PathIds : FindUsages(n)
    \/ \E n \in PathIds : FindCallers(n)
    \/ \E n \in PathIds : FindCallees(n)
    \/ \E n \in PathIds : GetNodeContext(n)
    \/ \E n \in PathIds, d \in 0..MaxDepth : AnalyzeImpact(n, d)
    \/ Return

SpecQueries == Init /\ [][NextQueries]_vars

NextImpact ==
    \/ \E r \in ImpactParseResults : AddParseResult(r)
    \/ \E n \in ImpactIds, depth \in 0..MaxDepth : AnalyzeImpact(n, depth)
    \/ Return

SpecImpact == Init /\ [][NextImpact]_vars

\* the builder has ingested nothing yet, or the six scripts, or the one
InitRisk ==
    /\ graph \in {EmptyGraph, AddParseResults(EmptyGraph, CrowdProject),
                  _add_parse_result_to_graph(EmptyGraph, CrowdFile)}
    /\ result = NoResult
    /\ parse_results = EmptyDict
    /\ ServerNotStarted
    /\ exported = NoneDict

\* every affected node lies in one file at most
NextRisk ==
    \/ \E r \in RiskParseResults : AddParseResult(r)
    \/ \E n \in RiskIds, depth \in 0..MaxDepth : AnalyzeImpact(n, depth)
    \/ \E total_affected \in 0..MaxAffected :
           \E files \in 0..Min(total_affected, MaxFiles) : RateRisk(total_affected, files)
    \/ Return

SpecRisk == InitRisk /\ [][NextRisk]_vars

\* the builder has ingested nothing yet, or one of the two larger files
InitCycles ==
    /\ graph \in {EmptyGraph, _add_parse_result_to_graph(EmptyGraph, RingFile),
                  _add_parse_result_to_graph(EmptyGraph, MeshFile)}
    /\ result = NoResult
    /\ parse_results = EmptyDict
    /\ ServerNotStarted
    /\ exported = NoneDict

NextCycles ==
    \/ \E r \in CycleParseResults : AddParseResult(r)
    \/ \E edge_types \in EdgeTypeChoices, max_cycles \in 0..MaxCycles :
           \E cycles \in simple_cycles(SubgraphEdges(graph, edge_types)) :
               DetectCircularDependencies(edge_types, max_cycles, cycles)
    \/ Return

SpecCycles == InitCycles /\ [][NextCycles]_vars

NextSignal ==
    \/ \E r \in SignalParseResults : AddParseResult(r)
    \/ \E signal_name \in SignalNames, nodes \in ListOf(DOMAIN graph.node) :
           TraceSignalFlow(signal_name, nodes)
    \/ Return

SpecSignal == Init /\ [][NextSignal]_vars

NextExecution ==
    \/ \E r \in ExecutionParseResults : AddParseResult(r)
    \/ \E start_function \in StartNames, end_function \in EndNames, d \in 0..MaxDepth :
           \E nodes \in ListOf(DOMAIN graph.node) :
               TraceExecutionPath(start_function, end_function, d, nodes)
    \/ Return

SpecExecution == Init /\ [][NextExecution]_vars

NextBuild ==
    \/ \E r \in BuildParseResults : AddParseResult(r)
    \/ \E files \in FileLists : BuildGraph(files)
    \/ Clear
    \/ Return

SpecBuild == Init /\ [][NextBuild]_vars

\* the builder fills the graph, then two threads run queries side by side
NextReaders ==
    \/ \E r \in ReaderParseResults : Load(r)
    \/ \E t \in QueryThreads, op \in QueryOps : StartQuery(t, op)
    \/ \E t \in QueryThreads : FinishQuery(t)

SpecReaders == Init /\ [][NextReaders]_vars

\* the request threads of one app, each step of each thread its own step
NextServer ==
    \/ \E t \in ServerThreads, getter \in Getters : Call(t, getter)
    \/ \E t \in ServerThreads : TestBuilder(t)
    \/ \E t \in ServerThreads : BuildProject(t)
    \/ \E t \in ServerThreads : SetBuilder(t)
    \/ \E t \in ServerThreads : SetQueries(t)
    \/ \E t \in ServerThreads : SetTracer(t)
    \/ \E t \in ServerThreads : SetAnalyzer(t)
    \/ \E t \in ServerThreads : ReturnBuilder(t)
    \/ \E t \in ServerThreads : ReturnEntry(t)

SpecServer == Init /\ [][NextServer]_vars

NextExchange ==
    \/ \E r \in BuildParseResults : AddParseResult(r)
    \/ \E file \in ProjectFiles : BuildGraph(<<file>>)
    \/ Clear
    \/ \E nodes \in ListOf(DOMAIN graph.node) : ExportJson(nodes)
    \/ ImportJson
    \/ Return

SpecExchange == Init /\ [][NextExchange]_vars

-----------------------------------------------------------------------------
(* Properties of find_path and get_node.                                   *)

IsFindPath == result.op = "find_path"
Found == IsFindPath /\ result.value.found

\* the node ids along a returned path
PathIdsOf(steps) == [i \in DOMAIN steps |-> steps[i].node_id]

NoRepeat(p) == \A i \in DOMAIN p, j \in DOMAIN p : p[i] = p[j] => i = j

\* the simple directed paths of G from s to t with at most d hops, by
\* definition: the sequences of distinct nodes, from s to t, that follow edges
SimplePaths(G, s, t, d) ==
    {p \in UNION {[1..n -> DOMAIN G.node] : n \in 1..Min(d + 1, Cardinality(DOMAIN G.node))} :
        /\ p[1] = s
        /\ p[Len(p)] = t
        /\ NoRepeat(p)
        /\ \A i \in 1..(Len(p) - 1) : HasEdge(G, p[i], p[i + 1])}

ExpectedPaths == SimplePaths(graph, result.source_id, result.target_id, result.max_depth)

\* C1: every path of a successful find_path starts at the source, ends at the
\* target, repeats no node, has at most max_depth hops, follows edges of the
\* graph, and records on each step but the last the relationship of the edge
\* to the next step.
C1_PathsAreWalks ==
    Found =>
        \A k \in DOMAIN result.value.paths :
            LET steps == result.value.paths[k]
                ids == PathIdsOf(steps)
            IN  /\ Len(steps) >= 1
                /\ ids[1] = result.source_id
                /\ ids[Len(ids)] = result.target_id
                /\ NoRepeat(ids)
                /\ Len(ids) - 1 <= result.max_depth
                /\ \A i \in 1..(Len(ids) - 1) :
                       /\ HasEdge(graph, ids[i], ids[i + 1])
                       /\ steps[i].edge_type = graph.data[<<ids[i], ids[i + 1]>>].relationship

\* two paths are returned, one of them of two hops over edges of different
\* relationships
C1_Witness ==
    /\ Found
    /\ Len(result.value.paths) = 2
    /\ \E k \in DOMAIN result.value.paths :
           /\ Len(result.value.paths[k]) = 3
           /\ result.value.paths[k][1].edge_type # result.value.paths[k][2].edge_type

\* the edges along a returned path that are of low or ambiguous confidence
WeakEdges(steps) ==
    {i \in 1..(Len(steps) - 1) :
        graph.data[<<steps[i].node_id, steps[i + 1].node_id>>].confidence
            \in {"low", "ambiguous"}}

ConfidencesOnPaths ==
    UNION {{steps[i].confidence : i \in DOMAIN steps}
           \cup {graph.data[<<steps[i].node_id, steps[i + 1].node_id>>].confidence :
                    i \in 1..(Len(steps) - 1)} :
           steps \in Range(result.value.paths)}

\* C2 as claimed: the aggregate confidence is low if any edge or node on a
\* returned path is low or ambiguous, else medium if any is medium, else high.
C2_AnyWeakIsLow ==
    Found =>
        result.value.confidence =
            IF ConfidencesOnPaths \cap {"low", "ambiguous"} # {} THEN "low"
            ELSE IF "medium" \in ConfidencesOnPaths THEN "medium"
            ELSE "high"

\* C2 as amended: the aggregate confidence is low if some returned path has
\* two or more edges of low or ambiguous confidence, else medium if some
\* returned path has one such edge, else high; the confidence of the nodes
\* and edges of medium confidence do not enter.
C2_WeakEdgeCount ==
    Found =>
        result.value.confidence =
            IF \E steps \in Range(result.value.paths) : Cardinality(WeakEdges(steps)) >= 2
            THEN "low"
            ELSE IF \E steps \in Range(result.value.paths) : Cardinality(WeakEdges(steps)) = 1
            THEN "medium"
            ELSE "high"

\* a returned path runs over a node of low confidence and two weak edges
C2_Witness ==
    /\ Found
    /\ result.value.confidence = "low"
    /\ \E steps \in Range(result.value.paths) :
           /\ Cardinality(WeakEdges(steps)) = 2
           /\ \E i \in DOMAIN steps : steps[i].confidence = "low"

\* an id that is in the graph only as the endpoint of an edge: the builder
\* gives every node it adds its eight attributes
Dangling(G, n) ==
    /\ InGraph(G, n)
    /\ G.node[n] = EmptyDict
    /\ \E e \in DOMAIN G.data : n \in {e[1], e[2]}

\* C3: queries treat an id that is only the endpoint of an edge as absent:
\* find_path to it returns found = false and get_node returns no node.
C3_DanglingIsAbsent ==
    /\ (IsFindPath /\ Dangling(graph, result.target_id)
            /\ HasEdge(graph, result.source_id, result.target_id)
        => ~result.value.found)
    /\ (result.op = "get_node" /\ Dangling(graph, result.node_id)
        => result.value = NoneDict)

\* C4: a successful find_path counts all simple paths of at most max_depth
\* hops, returns min(max_paths, total_paths) of them in non-decreasing
\* length, omits none shorter than one it returns, and reports the least hop
\* count.
C4_CountOrderTruncation ==
    Found =>
        LET returned == [k \in DOMAIN result.value.paths |->
                            PathIdsOf(result.value.paths[k])]
        IN  /\ result.value.total_paths = Cardinality(ExpectedPaths)
            /\ Len(returned) = Min(result.max_paths, result.value.total_paths)
            /\ Range(returned) \subseteq ExpectedPaths
            /\ NoRepeat(returned)
            /\ \A i \in 1..(Len(returned) - 1) : Len(returned[i]) <= Len(returned[i + 1])
            /\ \A p \in ExpectedPaths \ Range(returned) :
                   \A q \in Range(returned) : Len(q) <= Len(p)
            /\ \A p \in ExpectedPaths : result.value.shortest_length <= Len(p) - 1
            /\ \E p \in ExpectedPaths : result.value.shortest_length = Len(p) - 1

\* of two paths of different lengths only the shorter is returned
C4_Witness ==
    /\ Found
    /\ result.value.total_paths = 2
    /\ result.max_paths = 1
    /\ Len(result.value.paths) = 1
    /\ Len(result.value.paths[1]) = 2
    /\ \E p \in ExpectedPaths : Len(p) = 3

\* C5: find_path returns found = true exactly when both ids are in the graph
\* and a simple path of at most max_depth hops joins them; when it returns
\* found = false it returns no path and a count of 0.
C5_FoundIffPathExists ==
    IsFindPath =>
        /\ result.value.found <=>
               /\ InGraph(graph, result.source_id)
               /\ InGraph(graph, result.target_id)
               /\ ExpectedPaths # {}
        /\ ~result.value.found =>
               /\ result.value.paths = <<>>
               /\ result.value.total_paths = 0

\* both ids are in the graph and joined by a path longer than max_depth
C5_Witness ==
    /\ IsFindPath
    /\ ~result.value.found
    /\ InGraph(graph, result.source_id)
    /\ InGraph(graph, result.target_id)
    /\ SimplePaths(graph, result.source_id, result.target_id, result.max_depth + 1) # {}

-----------------------------------------------------------------------------
(* Properties of find_dependencies.                                        *)

IsFindDependencies == result.op = "find_dependencies"

\* the nodes one step from n in the direction: along an out-edge (forward),
\* along an in-edge (backward), along either (both)
Step(G, n, direction) ==
    {m \in DOMAIN G.node :
        \/ direction \in {FORWARD, BOTH} /\ HasEdge(G, n, m)
        \/ direction \in {BACKWARD, BOTH} /\ HasEdge(G, m, n)}

\* the nodes at most k steps from a
RECURSIVE Within(_, _, _, _)
Within(G, a, direction, k) ==
    IF k <= 0 THEN {a}
    ELSE LET inner == Within(G, a, direction, k - 1)
         IN  inner \cup UNION {Step(G, n, direction) : n \in inner}

\* the nodes exactly k steps from a (shortest distance k)
AtDistance(G, a, direction, k) ==
    IF k = 0 THEN {a} ELSE Within(G, a, direction, k) \ Within(G, a, direction, k - 1)

DependencyIds(value) == [i \in DOMAIN value.dependencies |-> value.dependencies[i].id]

\* the edge an entry was reached by joins it to a node one step nearer
ReachedByEdge(G, a, direction, dep) ==
    \E m \in AtDistance(G, a, direction, dep.depth - 1) :
        \/ /\ direction \in {FORWARD, BOTH}
           /\ HasEdge(G, m, dep.id)
           /\ dep.edge_type = G.data[<<m, dep.id>>].relationship
        \/ /\ direction \in {BACKWARD, BOTH}
           /\ HasEdge(G, dep.id, m)
           /\ dep.edge_type = G.data[<<dep.id, m>>].relationship

\* C6: find_dependencies(A, Forward, d) and (A, Backward, d) return exactly
\* the nodes other than A at shortest distance 1..d from A in that direction,
\* each once, with that distance as depth and with the relationship of an
\* edge that joins it to a node one step nearer; A itself is never returned.
C6_ShortestDistanceOnce ==
    IsFindDependencies /\ result.value.direction \in {FORWARD, BACKWARD} =>
        LET v == result.value
            a == v.node_id
            ids == DependencyIds(v)
        IN  /\ Range(ids) =
                   IF InGraph(graph, a)
                   THEN Within(graph, a, v.direction, v.depth) \ {a}
                   ELSE {}
            /\ NoRepeat(ids)
            /\ v.total_count = Len(ids)
            /\ \A i \in DOMAIN v.dependencies :
                   LET dep == v.dependencies[i]
                   IN  /\ dep.depth \in 1..v.depth
                       /\ dep.id \in AtDistance(graph, a, v.direction, dep.depth)
                       /\ ReachedByEdge(graph, a, v.direction, dep)

\* A lies on a cycle, a node two steps away is returned with depth 2, and a
\* node that two routes of different lengths reach is returned with depth 1
C6_Witness ==
    /\ IsFindDependencies
    /\ result.value.direction = FORWARD
    /\ result.value.depth = 2
    /\ result.value.node_id \in
           UNION {Step(graph, n, FORWARD) :
                    n \in Within(graph, result.value.node_id, FORWARD, 2) \ {result.value.node_id}}
    /\ \E i \in DOMAIN result.value.dependencies :
           LET dep == result.value.dependencies[i]
           IN  /\ dep.depth = 1
               /\ \E m \in AtDistance(graph, result.value.node_id, FORWARD, 1) :
                      HasEdge(graph, m, dep.id)

\* C7: the result for Both holds every node of the results for Forward and
\* for Backward from the same node with the same depth, at a depth no greater.
C7_BothCoversEach ==
    IsFindDependencies /\ result.value.direction = BOTH =>
        \A direction \in {FORWARD, BACKWARD} :
            LET single == find_dependencies(graph, result.value.node_id, direction,
                                            result.value.depth)
            IN  \A i \in DOMAIN single.dependencies :
                    \E j \in DOMAIN result.value.dependencies :
                        /\ result.value.dependencies[j].id = single.dependencies[i].id
                        /\ result.value.dependencies[j].depth <= single.dependencies[i].depth

\* Both reaches at depth 1, along an in-edge, a node that Forward reaches
\* only at depth 2
C7_Witness ==
    /\ IsFindDependencies
    /\ result.value.direction = BOTH
    /\ LET forward == find_dependencies(graph, result.value.node_id, FORWARD,
                                        result.value.depth)
       IN  \E i \in DOMAIN forward.dependencies, j \in DOMAIN result.value.dependencies :
               /\ result.value.dependencies[j].id = forward.dependencies[i].id
               /\ result.value.dependencies[j].depth < forward.dependencies[i].depth

-----------------------------------------------------------------------------
(* Properties of detect_dead_code.                                         *)

IsDetectDeadCode == result.op = "detect_dead_code"

IsFunction(G, n) == Get(G.node[n], "type", "") = "FUNCTION"

NameOf(G, n) == Get(G.node[n], "name", <<>>)

RelationshipOf(G, u, v) == Get(G.data[<<u, v>>], "relationship", None)

\* no node of the graph lies in a file that matches a pattern in force
NoPatternMatches ==
    \A n \in DOMAIN graph.node :
        \A i \in DOMAIN EntryPatterns(result.entry_points) :
            ~fnmatch(_short_path(Get(graph.node[n], "file_path", <<>>)),
                     EntryPatterns(result.entry_points)[i])

\* a Function node that no edge enters and that is not a lifecycle callback
Uncalled(n) ==
    /\ IsFunction(graph, n)
    /\ \A e \in DOMAIN graph.data : e[2] # n
    /\ NameOf(graph, n) \notin LifecycleEntryNames

Reported(n) == \E info \in result.value.unreachable_functions : info.id = n

\* an edge out of n, of a relationship that pulls its source in, ends in the
\* reachable set
PulledIn(n) ==
    \E e \in DOMAIN graph.data :
        /\ e[1] = n
        /\ RelationshipOf(graph, e[1], e[2]) \in {"CALLS", "REFERENCES", "CONNECTS_TO"}
        /\ e[2] \in result.walk.reachable

\* C8 as stated: with no entry-point pattern matching any file, every Function
\* node that has no incoming edge and is not a lifecycle callback is reported
\* as unreachable, whatever its name and its outgoing edges.
C8_UncalledIsReported ==
    (IsDetectDeadCode /\ NoPatternMatches) =>
        \A n \in DOMAIN graph.node : Uncalled(n) => Reported(n)

\* C8, amended: with no entry-point pattern matching any file, a Function node
\* that has no incoming edge and is not a lifecycle callback is reported as
\* unreachable exactly when its name does not begin with an underscore and it
\* has no outgoing Calls, References or ConnectsTo edge into the reachable set.
C8_UncalledIsReportedUnlessPrivateOrPulledIn ==
    (IsDetectDeadCode /\ NoPatternMatches) =>
        \A n \in DOMAIN graph.node :
            Uncalled(n) =>
                (Reported(n) <=> (~StartsWith(NameOf(graph, n), <<"_">>) /\ ~PulledIn(n)))

\* one uncalled function with an outgoing edge is reported, another is not
C8_Witness ==
    /\ IsDetectDeadCode
    /\ NoPatternMatches
    /\ \E n \in DOMAIN graph.node :
           Uncalled(n) /\ Reported(n) /\ Successors(graph, n) # <<>>
    /\ \E n \in DOMAIN graph.node : Uncalled(n) /\ ~Reported(n)

\* the entry-point seeds
Seeds ==
    {n \in DOMAIN graph.node :
        LET data == graph.node[n]
        IN  \/ \E i \in DOMAIN EntryPatterns(result.entry_points) :
                   fnmatch(_short_path(Get(data, "file_path", <<>>)),
                           EntryPatterns(result.entry_points)[i])
            \/ "type" \in DOMAIN data /\ data.type = "FUNCTION"
                                      /\ data.name \in LifecycleEntryNames
            \/ "type" \in DOMAIN data /\ data.type = "SCENE"
            \/ "type" \in DOMAIN data /\ data.type = "SIGNAL_CONNECTION"
                                      /\ "defined_in_scene" \in DOMAIN data.metadata
                                      /\ data.metadata.defined_in_scene}

\* S holds the seeds and is closed under the two rules
Closed(S, seeds) ==
    /\ seeds \subseteq S
    /\ \A e \in DOMAIN graph.data : e[1] \in S => e[2] \in S
    /\ \A e \in DOMAIN graph.data :
           (e[2] \in S /\ RelationshipOf(graph, e[1], e[2])
                              \in {"CALLS", "REFERENCES", "CONNECTS_TO"}) => e[1] \in S

\* the sets of nodes that are closed and lie within every closed set
LeastClosed(seeds) ==
    LET closed == {S \in SUBSET DOMAIN graph.node : Closed(S, seeds)}
    IN  {S \in closed : \A T \in closed : S \subseteq T}

\* C9: the reachable set is the least set that holds the seeds and is closed
\* under following outgoing edges and under adding the source of a Calls,
\* References or ConnectsTo edge that ends in it; total_reachable is its size;
\* the worklist loop ends, after at most one iteration per seed and two per edge.
C9_ReachableIsLeastClosed ==
    IsDetectDeadCode =>
        /\ LeastClosed(Seeds) = {result.walk.reachable}
        /\ result.value.total_reachable = Cardinality(result.walk.reachable)
        /\ result.walk.iterations
               <= Cardinality(result.entry_node_ids) + 2 * NumberOfEdges(graph)

\* a graph with a cycle and a node, no seed and with no edge into it, pulled in
C9_Witness ==
    /\ IsDetectDeadCode
    /\ \E e \in DOMAIN graph.data : e[1] # e[2] /\ <<e[2], e[1]>> \in DOMAIN graph.data
    /\ \E e \in DOMAIN graph.data :
           /\ e[1] \in result.walk.reachable \ Seeds
           /\ \A f \in DOMAIN graph.data : f[2] # e[1]

AllReported ==
    result.value.unreachable_functions \cup result.value.unreachable_classes
        \cup result.value.unreachable_signals

\* C10: a reported node is outside the reachable set and is a Function, a
\* Class or a Signal; a reported Function has no name beginning with an
\* underscore unless it is a lifecycle callback; a reported Signal has no
\* incoming Emits edge and no outgoing ConnectsTo edge; total_unreachable is
\* the sum of the sizes of the three lists.
C10_ReportedAreUnreachable ==
    IsDetectDeadCode =>
        /\ \A info \in AllReported :
               /\ info.id \in DOMAIN graph.node \ result.walk.reachable
               /\ info.type \in {"FUNCTION", "CLASS", "SIGNAL"}
        /\ \A info \in result.value.unreachable_functions :
               /\ info.type = "FUNCTION"
               /\ StartsWith(info.name, <<"_">>) => info.name \in LifecycleEntryNames
        /\ \A info \in result.value.unreachable_classes : info.type = "CLASS"
        /\ \A info \in result.value.unreachable_signals :
               /\ info.type = "SIGNAL"
               /\ \A e \in DOMAIN graph.data :
                      /\ e[2] = info.id => RelationshipOf(graph, e[1], e[2]) # "EMITS"
                      /\ e[1] = info.id => RelationshipOf(graph, e[1], e[2]) # "CONNECTS_TO"
        /\ result.value.total_unreachable
               = Cardinality(result.value.unreachable_functions)
                 + Cardinality(result.value.unreachable_classes)
                 + Cardinality(result.value.unreachable_signals)

\* a function, a class and a signal are reported together
C10_Witness ==
    /\ IsDetectDeadCode
    /\ result.value.unreachable_functions # {}
    /\ result.value.unreachable_classes # {}
    /\ result.value.unreachable_signals # {}
    /\ result.value.total_unreachable = 3

-----------------------------------------------------------------------------
(* Properties of detect_circular_dependencies.                             *)

IsDetectCircular == result.op = "detect_circular_dependencies"

CycleIds(cycle) == [i \in DOMAIN cycle.cycle |-> cycle.cycle[i].id]

\* the relationships the search was restricted to, if any
Filtered == result.edge_types # None /\ result.edge_types # <<>>

\* C11: a returned cycle has two or more nodes, repeats none, and the graph has
\* an edge from each of its nodes to the next and from the last to the first;
\* under a relationship filter each of these edges has a relationship of the
\* filter.
C11_CyclesClose ==
    IsDetectCircular =>
        \A k \in DOMAIN result.value.cycles :
            LET ids == CycleIds(result.value.cycles[k])
            IN  /\ Len(ids) >= 2
                /\ NoRepeat(ids)
                /\ \A i \in DOMAIN ids :
                       LET next == ids[IF i = Len(ids) THEN 1 ELSE i + 1]
                       IN  /\ HasEdge(graph, ids[i], next)
                           /\ Filtered =>
                                  graph.data[<<ids[i], next>>].relationship
                                      \in Range(result.edge_types)

\* a cycle is returned under a filter from a graph that also has a self-loop
\* and an edge outside the filter
C11_Witness ==
    /\ IsDetectCircular
    /\ Filtered
    /\ result.value.cycles # <<>>
    /\ \E e \in DOMAIN graph.data : e[1] = e[2]
    /\ \E e \in DOMAIN graph.data :
           graph.data[e].relationship \notin Range(result.edge_types)

\* the sequences of two or more distinct nodes along which the edges close
ClosedWalks(edges) ==
    LET nodes == {e[1] : e \in edges}
    IN  {c \in UNION {[1..n -> nodes] : n \in 2..Cardinality(nodes)} :
            /\ NoRepeat(c)
            /\ \A i \in DOMAIN c : <<c[i], c[IF i = Len(c) THEN 1 ELSE i + 1]>> \in edges}

\* the elementary cycles of two or more nodes, each given by its edges
ElementaryCycles(edges) ==
    {{<<c[i], c[IF i = Len(c) THEN 1 ELSE i + 1]>> : i \in DOMAIN c} : c \in ClosedWalks(edges)}

RECURSIVE SumOver(_, _)
SumOver(counts, keys) ==
    IF keys = {} THEN 0
    ELSE LET key == CHOOSE x \in keys : TRUE
         IN  counts[key] + SumOver(counts, keys \ {key})

\* C12: the number of cycles reported is the smaller of max_cycles and the
\* number of elementary cycles of two or more nodes of the searched graph;
\* total_cycles is the number reported and the counts of by_type add up to it.
C12_ReportsMinOfLimitAndCycles ==
    IsDetectCircular =>
        /\ Len(result.value.cycles) =
               Min(result.max_cycles,
                   Cardinality(ElementaryCycles(SubgraphEdges(graph, result.edge_types))))
        /\ result.value.total_cycles = Len(result.value.cycles)
        /\ SumOver(result.value.by_type, DOMAIN result.value.by_type)
               = result.value.total_cycles

\* C13: cycle_type is 'call' if an edge along the cycle is Calls, else 'signal'
\* if one is Emits or ConnectsTo, else 'resource' if one is References, else
\* 'data'; severity is 'high' up to two nodes, 'medium' for three or four,
\* 'low' beyond; a graph that is one ring of three Calls edges yields one
\* cycle, 'call' and 'medium'.
C13_TypeAndSeverity ==
    IsDetectCircular =>
        /\ \A k \in DOMAIN result.value.cycles :
               LET cycle == result.value.cycles[k]
                   ids == CycleIds(cycle)
                   along == {graph.data[<<ids[i], ids[IF i = Len(ids) THEN 1 ELSE i + 1]>>]
                                 .relationship : i \in DOMAIN ids}
               IN  /\ cycle.cycle_length = Len(ids)
                   /\ cycle.cycle_type =
                          IF "CALLS" \in along THEN "call"
                          ELSE IF along \cap {"EMITS", "CONNECTS_TO"} # {} THEN "signal"
                          ELSE IF "REFERENCES" \in along THEN "resource"
                          ELSE "data"
                   /\ cycle.severity =
                          IF Len(ids) <= 2 THEN "high"
                          ELSE IF Len(ids) \in {3, 4} THEN "medium"
                          ELSE "low"
        /\ ( /\ DOMAIN graph.data = {<<"fn_run", "fn_helper">>, <<"fn_helper", "fn_ready">>,
                                     <<"fn_ready", "fn_run">>}
             /\ \A e \in DOMAIN graph.data : graph.data[e].relationship = "CALLS"
             /\ result.max_cycles >= 1
             /\ (~Filtered \/ result.edge_types = <<"CALLS">>) )
           => /\ Len(result.value.cycles) = 1
              /\ result.value.cycles[1].cycle_type = "call"
              /\ result.value.cycles[1].severity = "medium"

\* the ring of three Calls edges has been analysed
C13_Witness ==
    /\ IsDetectCircular
    /\ DOMAIN graph.data = {<<"fn_run", "fn_helper">>, <<"fn_helper", "fn_ready">>,
                            <<"fn_ready", "fn_run">>}
    /\ \A e \in DOMAIN graph.data : graph.data[e].relationship = "CALLS"
    /\ result.value.total_cycles = 1
    /\ result.value.cycles[1].severity = "medium"

-----------------------------------------------------------------------------
(* Properties of analyze_impact.                                           *)

IsAnalyzeImpact == result.op = "analyze_impact"

EntryIds(entries) == [i \in DOMAIN entries |-> entries[i].id]

DirectIds == Range(EntryIds(result.value.direct_impact))

IndirectIds == Range(EntryIds(result.value.indirect_impact))

\* the sources of the edges into n
SourcesInto(n) == {e[1] : e \in {x \in DOMAIN graph.data : x[2] = n}}

\* the nodes from which some node of targets is reached in at most k hops
ReachingWithin(targets, k) == UNION {Within(graph, t, BACKWARD, k) : t \in targets}

\* C14 as stated: direct_impact is the set of sources of edges into n, and
\* indirect_impact is the set of nodes outside direct_impact that reach a
\* direct-impact node in at most depth further hops (n itself set aside).
C14_IndirectWithinDepthBeyondDirect ==
    IsAnalyzeImpact =>
        /\ DirectIds = SourcesInto(result.node_id)
        /\ IndirectIds \ {result.node_id}
               = (ReachingWithin(DirectIds, result.depth) \ DirectIds) \ {result.node_id}

\* C14, amended: direct_impact is the set of sources of edges into n, each
\* once; indirect_impact is the set of nodes other than n and outside
\* direct_impact from which n is reached in at most depth hops, the hop into n
\* included, each once.
C14_IndirectWithinDepthOfNode ==
    IsAnalyzeImpact =>
        /\ DirectIds = SourcesInto(result.node_id)
        /\ NoRepeat(EntryIds(result.value.direct_impact))
        /\ IndirectIds =
               IF InGraph(graph, result.node_id)
               THEN (Within(graph, result.node_id, BACKWARD, result.depth)
                         \ {result.node_id}) \ DirectIds
               ELSE {}
        /\ NoRepeat(EntryIds(result.value.indirect_impact))

\* n lies on a cycle through a node of indirect_impact
C14_Witness ==
    /\ IsAnalyzeImpact
    /\ DirectIds # {}
    /\ IndirectIds # {}
    /\ \E m \in IndirectIds : HasEdge(graph, result.node_id, m)

\* C15: an entry of indirect_impact carries the level of its discovery, its
\* shortest backward distance from n; total_affected is the number of direct
\* and indirect entries; for the chain A -Calls-> B -Calls-> C the analysis of
\* C with depth 2 gives direct_impact [B], indirect_impact [A at depth 2],
\* total_affected 2 and risk_level 'low'.
C15_DepthIsDistance ==
    IsAnalyzeImpact =>
        /\ \A i \in DOMAIN result.value.indirect_impact :
               LET entry == result.value.indirect_impact[i]
               IN  /\ entry.depth >= 2
                   /\ entry.id \in AtDistance(graph, result.node_id, BACKWARD, entry.depth)
        /\ DirectIds \subseteq AtDistance(graph, result.node_id, BACKWARD, 1)
                                   \cup {result.node_id}
        /\ result.value.total_affected
               = Len(result.value.direct_impact) + Len(result.value.indirect_impact)
        /\ ( /\ DOMAIN graph.data = {<<"fn_run", "fn_helper">>, <<"fn_helper", "fn_ready">>}
             /\ \A e \in DOMAIN graph.data : graph.data[e].relationship = "CALLS"
             /\ result.node_id = "fn_ready"
             /\ result.depth = 2 )
           => /\ EntryIds(result.value.direct_impact) = <<"fn_helper">>
              /\ EntryIds(result.value.indirect_impact) = <<"fn_run">>
              /\ result.value.indirect_impact[1].depth = 2
              /\ result.value.total_affected = 2
              /\ result.value.risk_level = "low"

\* the chain has been analysed from its end with depth 2
C15_Witness ==
    /\ IsAnalyzeImpact
    /\ DOMAIN graph.data = {<<"fn_run", "fn_helper">>, <<"fn_helper", "fn_ready">>}
    /\ \A e \in DOMAIN graph.data : graph.data[e].relationship = "CALLS"
    /\ result.node_id = "fn_ready"
    /\ result.depth = 2
    /\ result.value.total_affected = 2

IsRiskLevel == result.op = "risk_level"

\* the risk level by the stated thresholds
StatedRisk(total_affected, files) ==
    CASE total_affected > 50 \/ files > 10 -> "critical"
      [] ~(total_affected > 50 \/ files > 10) /\ (total_affected > 20 \/ files > 5) -> "high"
      [] ~(total_affected > 20 \/ files > 5 \/ total_affected > 50 \/ files > 10)
             /\ total_affected > 5 -> "medium"
      [] OTHER -> "low"

\* C16: risk_level depends on total_affected and the number of affected files
\* only: 'critical' above 50 nodes or 10 files, else 'high' above 20 nodes or
\* 5 files, else 'medium' above 5 nodes, else 'low'; affected_files is the set
\* of the non-empty files of the direct and indirect entries.
C16_RiskByThresholds ==
    /\ IsRiskLevel =>
           result.value = StatedRisk(result.total_affected, result.files)
    /\ IsAnalyzeImpact =>
           /\ result.value.risk_level =
                  StatedRisk(result.value.total_affected,
                             Cardinality(result.value.affected_files))
           /\ result.value.affected_files =
                  ({entry.file : entry \in Range(result.value.direct_impact)}
                       \cup {entry.file : entry \in Range(result.value.indirect_impact)})
                      \ {<<>>}

\* six functions in six files call the analysed node: the files make it 'high'
C16_Witness ==
    /\ IsAnalyzeImpact
    /\ result.value.total_affected = 6
    /\ Cardinality(result.value.affected_files) = 6
    /\ result.value.risk_level = "high"

-----------------------------------------------------------------------------
(* Properties of the queries on one node.                                  *)

NodeQueries ==
    {"find_dependencies", "find_usages", "find_callers", "find_callees",
     "get_node_context", "analyze_impact"}

IsNodeQuery == result.op \in NodeQueries

\* the id the query was asked about
AskedId == IF result.op = "find_dependencies" THEN result.value.node_id ELSE result.node_id

\* the value returned is the empty result of the operation
EmptyValue ==
    CASE result.op = "find_dependencies" ->
             /\ "dependencies" \in DOMAIN result.value
             /\ result.value.dependencies = <<>>
             /\ result.value.total_count = 0
      [] result.op \in {"find_usages", "find_callers"} ->
             /\ "usages" \in DOMAIN result.value
             /\ result.value.usages = <<>>
             /\ result.value.total_count = 0
      [] result.op \in {"find_callees", "get_node_context"} ->
             DOMAIN result.value = {}
      [] result.op = "analyze_impact" ->
             /\ "direct_impact" \in DOMAIN result.value
             /\ result.value.direct_impact = <<>>
             /\ result.value.indirect_impact = <<>>
             /\ result.value.affected_files = {}
             /\ result.value.total_affected = 0
             /\ result.value.risk_level = "low"

\* C17: find_dependencies, find_usages, find_callers, find_callees,
\* get_node_context and analyze_impact, asked about an id the graph does not
\* hold, raise nothing and return their empty result; the graph is the same
\* after the call, so the id is still absent.
C17_AbsentIdGivesEmpty ==
    /\ []((IsNodeQuery /\ AskedId \notin DOMAIN graph.node) => EmptyValue)
    /\ [][(result'.op \in NodeQueries) => graph' = graph]_vars

\* find_usages has been asked about an id absent from a graph that holds edges
C17_Witness ==
    /\ result.op = "find_usages"
    /\ AskedId \notin DOMAIN graph.node
    /\ DOMAIN graph.data # {}

\* C18: find_usages(n) returns one usage per edge into n, with the id of the
\* edge's source, the edge's relationship and the edge's confidence;
\* total_count is the number of edges into n, 0 with an empty list when there
\* is none.
C18_OneUsagePerIncomingEdge ==
    (result.op = "find_usages" /\ AskedId \in DOMAIN graph.node) =>
        LET usages == result.value.usages
        IN  /\ Range(EntryIds(usages)) = SourcesInto(AskedId)
            /\ NoRepeat(EntryIds(usages))
            /\ result.value.total_count = Cardinality(SourcesInto(AskedId))
            /\ result.value.total_count = Len(usages)
            /\ \A i \in DOMAIN usages :
                   LET data == graph.data[<<usages[i].id, AskedId>>]
                   IN  /\ usages[i].edge_type = data.relationship
                       /\ usages[i].confidence = data.confidence

\* a usage carries a confidence that is not its source node's, and another
\* node of the same graph has no usage
C18_Witness ==
    /\ result.op = "find_usages"
    /\ AskedId \in DOMAIN graph.node
    /\ \E i \in DOMAIN result.value.usages :
           LET source == result.value.usages[i].id
           IN  /\ "confidence" \in DOMAIN graph.node[source]
               /\ graph.node[source].confidence # result.value.usages[i].confidence
    /\ \E n \in DOMAIN graph.node : SourcesInto(n) = {}

-----------------------------------------------------------------------------
(* Properties of trace_signal_flow.                                        *)

IsTraceSignalFlow == result.op = "trace_signal_flow"

\* the SIGNAL_CONNECTION nodes whose metadata names the traced signal
NamingConnections ==
    {n \in DOMAIN graph.node : NamesSignal(NodeData(graph, n), result.signal_name)}

\* C19: no two entries of the connections list returned by
\* trace_signal_flow have the same handler and the same file, whether they
\* were found on a CONNECTS_TO edge of the signal or by the metadata scan.
C19_ConnectionsDeduplicated ==
    IsTraceSignalFlow =>
        LET connections == result.value.connections
        IN  \A i \in DOMAIN connections, j \in DOMAIN connections :
                (/\ connections[i].handler = connections[j].handler
                 /\ connections[i].file = connections[j].file) => i = j

\* C20: for every SIGNAL_CONNECTION node whose metadata names the traced
\* signal, the connections list returned by trace_signal_flow has an entry
\* with the handler of that node and its file, also when no edge links the
\* node to a SIGNAL node.
C20_EveryNamingConnectionListed ==
    IsTraceSignalFlow =>
        LET connections == result.value.connections
        IN  \A n \in NamingConnections :
                LET data == NodeData(graph, n)
                IN  \E i \in DOMAIN connections :
                        /\ connections[i].handler
                               = Get(Get(data, "metadata", EmptyDict), "handler", <<>>)
                        /\ connections[i].file
                               = _short_path(Get(data, "file_path", <<>>))

-----------------------------------------------------------------------------
(* Properties of trace_execution_path.                                     *)

IsTraceExecutionPath == result.op = "trace_execution_path"

\* the FUNCTION nodes whose name contains the given one, case set aside
MatchingFunctions(name) ==
    {n \in DOMAIN graph.node :
        /\ Get(NodeData(graph, n), "type", None) = "FUNCTION"
        /\ Contains(Lower(Get(NodeData(graph, n), "name", <<>>)), Lower(name))}

\* the graph restricted to its CALLS edges
CallsOnly ==
    [graph EXCEPT !.data = [e \in {x \in DOMAIN graph.data : IsCall(graph, x[1], x[2])} |->
                               graph.data[e]]]

\* the nodes that a CALLS edge starts from or ends at
Calling == {e[1] : e \in DOMAIN CallsOnly.data} \cup {e[2] : e \in DOMAIN CallsOnly.data}

\* the simple paths over CALLS edges, of at most max_depth hops, between the
\* matching start and end nodes taken from the given set
CallPathsAmong(ends) ==
    UNION {SimplePaths(CallsOnly, s, t, result.max_depth) :
              <<s, t>> \in (MatchingFunctions(result.start_function) \cap ends)
                           \X (MatchingFunctions(result.end_function) \cap ends)}

ReturnedExecutionPaths ==
    [k \in DOMAIN result.value.paths |-> PathIdsOf(result.value.paths[k])]

SortedCallPaths(returned) ==
    /\ NoRepeat(returned)
    /\ \A i \in 1..(Len(returned) - 1) : Len(returned[i]) <= Len(returned[i + 1])
    /\ \A k \in DOMAIN returned : \A i \in 1..(Len(returned[k]) - 1) :
           /\ HasEdge(graph, returned[k][i], returned[k][i + 1])
           /\ graph.data[<<returned[k][i], returned[k][i + 1]>>].relationship = "CALLS"

-----------------------------------------------------------------------------
(* Properties of the builder: insertion, build_graph and clear.            *)

IsBuildGraph == result.op = "build_graph"

\* the parse results a build merges: those of the files an extractor handles
RECURSIVE Ingested(_)
Ingested(files) ==
    IF files = <<>> THEN <<>>
    ELSE (IF _parse_file(Head(files)) = NoneDict THEN <<>> ELSE <<_parse_file(Head(files))>>)
         \o Ingested(Tail(files))

RECURSIVE EdgesOf(_)
EdgesOf(results) ==
    IF results = <<>> THEN <<>> ELSE Head(results).edges \o EdgesOf(Tail(results))

RECURSIVE NodesOf(_)
NodesOf(results) ==
    IF results = <<>> THEN <<>> ELSE Head(results).nodes \o NodesOf(Tail(results))

PairOf(edge) == <<edge.source_id, edge.target_id>>

\* the last edge of the list that was inserted for the pair
LastFor(edges, pair) ==
    edges[CHOOSE i \in DOMAIN edges :
              /\ PairOf(edges[i]) = pair
              /\ \A j \in DOMAIN edges : PairOf(edges[j]) = pair => j <= i]

\* G2 is G with the edges inserted: one record per pair, that of the last
\* edge inserted for it, the other pairs as they were
EdgesMerged(G, edges, G2) ==
    LET pairs == {PairOf(edges[i]) : i \in DOMAIN edges}
    IN  /\ DOMAIN G2.data = (DOMAIN G.data) \cup pairs
        /\ NumberOfEdges(G2) = Cardinality((DOMAIN G.data) \cup pairs)
        /\ \A pair \in pairs :
               LET last == LastFor(edges, pair)
               IN  G2.data[pair] = [relationship |-> last.relationship,
                                    context |-> last.context,
                                    metadata |-> last.metadata,
                                    confidence |-> last.confidence]
        /\ \A pair \in (DOMAIN G.data) \ pairs : G2.data[pair] = G.data[pair]
        /\ \A u \in DOMAIN G2.node :
               /\ NoRepeat(G2.succ[u])
               /\ Range(G2.succ[u]) = {v \in DOMAIN G2.node : <<u, v>> \in DOMAIN G2.data}

\* C22: the graph holds one edge record per ordered pair: after the edges of
\* a parse result, or of the files of a build, are inserted, the pair's
\* relationship, context, metadata and confidence are those of the last edge
\* inserted for it, whatever the relationships of the earlier ones, and the
\* edge count is the number of distinct pairs inserted so far.
C22_LastEdgeWins ==
    /\ [][\A r \in BuildParseResults :
              AddParseResult(r) => EdgesMerged(graph, r.edges, graph')]_vars
    /\ [][result'.op = "build_graph" /\ result # result' =>
              /\ EdgesMerged(graph, EdgesOf(Ingested(result'.files)), graph')
              /\ result'.value.total_edges = NumberOfEdges(graph')]_vars

\* a build has inserted two edges of different relationships for one pair,
\* and the graph holds the second
C22_Witness ==
    /\ IsBuildGraph
    /\ LET edges == EdgesOf(Ingested(result.files))
       IN  /\ \E i \in DOMAIN edges, j \in DOMAIN edges :
                  /\ i < j
                  /\ PairOf(edges[i]) = PairOf(edges[j])
                  /\ edges[i].relationship # edges[j].relationship
                  /\ graph.data[PairOf(edges[j])].relationship = edges[j].relationship
                  /\ graph.data[PairOf(edges[j])].confidence = edges[j].confidence
           /\ result.value.total_edges < Len(edges)

\* the last node of the list that was inserted under the id
LastNode(nodes, id) ==
    nodes[CHOOSE i \in DOMAIN nodes :
              /\ nodes[i].id = id
              /\ \A j \in DOMAIN nodes : nodes[j].id = id => j <= i]

\* G2 is G with the nodes and edges inserted: one node per id, with the
\* attributes of the last node inserted under it, the other nodes and the
\* edges out of and into every node of G as they were
NodesMerged(G, nodes, edges, G2) ==
    LET ids == {nodes[i].id : i \in DOMAIN nodes}
        ends == UNION {{edges[i].source_id, edges[i].target_id} : i \in DOMAIN edges}
    IN  /\ DOMAIN G2.node = (DOMAIN G.node) \cup ids \cup ends
        /\ \A id \in ids :
               LET last == LastNode(nodes, id)
               IN  G2.node[id] = [type |-> last.type, name |-> last.name,
                                  file_path |-> last.file_path,
                                  line_number |-> last.line_number,
                                  language |-> last.language,
                                  code_snippet |-> last.code_snippet,
                                  metadata |-> last.metadata,
                                  confidence |-> last.confidence]
        /\ \A id \in (DOMAIN G2.node) \ ids :
               G2.node[id] = IF id \in DOMAIN G.node THEN G.node[id] ELSE EmptyDict
        /\ \A id \in DOMAIN G.node :
               /\ SubSeq(G2.succ[id], 1, Len(G.succ[id])) = G.succ[id]
               /\ SubSeq(G2.pred[id], 1, Len(G.pred[id])) = G.pred[id]
        /\ \A pair \in DOMAIN G.data :
               pair \notin {PairOf(edges[i]) : i \in DOMAIN edges} =>
                   pair \in DOMAIN G2.data /\ G2.data[pair] = G.data[pair]

\* C23: node ids are unique keys: after the nodes of a parse result, or of
\* the files of a build, are inserted, the graph has one node per distinct
\* id, a node whose id was there has all its attributes replaced by those of
\* the last node inserted under the id, and the insertion of nodes changes
\* neither the count of the other nodes nor any edge.
C23_LastNodeWins ==
    /\ [][\A r \in BuildParseResults :
              AddParseResult(r) => NodesMerged(graph, r.nodes, r.edges, graph')]_vars
    /\ [][result'.op = "build_graph" /\ result # result' =>
              /\ NodesMerged(graph, NodesOf(Ingested(result'.files)),
                             EdgesOf(Ingested(result'.files)), graph')
              /\ result'.value.total_nodes = Cardinality(DOMAIN graph'.node)]_vars

\* the edited script was built over the graph of its first version: run has
\* the attributes of the edit, _helper and the edge to it are still there
C23_Witness ==
    /\ IsBuildGraph
    /\ PlayerScriptEdited \in Range(result.files)
    /\ InGraph(graph, "fn_helper")
    /\ Get(graph.node["fn_helper"], "type", None) = "FUNCTION"
    /\ graph.node["fn_run"].confidence = "ambiguous"
    /\ graph.node["fn_run"].metadata = [params |-> <<"x">>]
    /\ HasEdge(graph, "fn_run", "fn_helper")
    /\ result.value.total_nodes = 2

\* C24: ingestion is idempotent: once a parse result has been merged,
\* merging it again leaves the graph as it is, and once build_graph has run
\* over some files, running it again over the same unchanged files leaves the
\* nodes, the edges, all their attributes and the stored parse results as
\* they are and returns the same statistics.
C24_IngestionIdempotent ==
    /\ [][\A r \in BuildParseResults :
              AddParseResult(r) => _add_parse_result_to_graph(graph', r) = graph']_vars
    /\ [][result'.op = "build_graph" =>
              LET again == build_graph(Builder(graph', parse_results'), result'.files)
              IN  /\ again.builder.graph = graph'
                  /\ again.builder.parse_results = parse_results'
                  /\ again.stats = result'.value]_vars

\* the script and the scene have been built, and the graph is the one that
\* ingesting the two twice in a row gives
C24_Witness ==
    /\ IsBuildGraph
    /\ result.files = <<PlayerScript, MainScene>>
    /\ DOMAIN parse_results = {FilePlayer, FileMainTscn}
    /\ NumberOfEdges(graph) = 2
    /\ graph = AddParseResults(AddParseResults(EmptyGraph, Ingested(result.files)),
                               Ingested(result.files))

-----------------------------------------------------------------------------
(* Properties of export_json and import_json.                              *)

\* the data are the flat representation of G: one entry per node, with its
\* id and all its attributes, and one entry per edge, with the ids of its
\* source and target and all its attributes
Represents(data, G) ==
    /\ {data.nodes[i].id : i \in DOMAIN data.nodes} = DOMAIN G.node
    /\ Len(data.nodes) = Cardinality(DOMAIN G.node)
    /\ \A i \in DOMAIN data.nodes :
           /\ (DOMAIN data.nodes[i]) \ {"id"} = DOMAIN G.node[data.nodes[i].id]
           /\ \A k \in DOMAIN G.node[data.nodes[i].id] :
                  data.nodes[i][k] = G.node[data.nodes[i].id][k]
    /\ {<<data.edges[i].source, data.edges[i].target>> : i \in DOMAIN data.edges}
           = DOMAIN G.data
    /\ Len(data.edges) = NumberOfEdges(G)
    /\ \A i \in DOMAIN data.edges :
           LET edge_data == G.data[<<data.edges[i].source, data.edges[i].target>>]
           IN  /\ (DOMAIN data.edges[i]) \ {"source", "target"} = DOMAIN edge_data
               /\ \A k \in DOMAIN edge_data : data.edges[i][k] = edge_data[k]

\* C25: export followed by import is a round trip: the file export_json
\* writes is the flat representation of the graph, nodes without attributes
\* included, and import_json leaves in the builder, whatever it held before,
\* the graph that the file read represents: the same node ids, node
\* attributes, edges and edge attributes.
C25_ExportImportRoundTrip ==
    /\ [][result'.op = "export_json" /\ result # result' =>
              Represents(exported', graph)]_vars
    /\ [][result'.op = "import_json" /\ result # result' /\ exported # NoneDict =>
              Represents(exported, graph')]_vars

\* a graph with a node that is only an edge endpoint was exported, and the
\* import has replaced a graph that held the scene
C25_Witness ==
    /\ result.op = "import_json"
    /\ exported # NoneDict
    /\ \E i \in DOMAIN exported.nodes : DOMAIN exported.nodes[i] = {"id"}
    /\ \E n \in DOMAIN graph.node : graph.node[n] = EmptyDict
    /\ NumberOfEdges(graph) >= 1
    /\ FileMainTscn \in DOMAIN parse_results
    /\ ~InGraph(graph, "scene_main")

-----------------------------------------------------------------------------
(* Properties of the two lists of analyze_impact taken together.           *)

\* the ids of direct_impact followed by those of indirect_impact
AffectedIds ==
    [i \in DOMAIN result.value.direct_impact |-> result.value.direct_impact[i].id]
    \o [i \in DOMAIN result.value.indirect_impact |-> result.value.indirect_impact[i].id]

\* no id is listed twice
AffectedIdsDistinct ==
    result.op = "analyze_impact" =>
        \A i \in DOMAIN AffectedIds, j \in DOMAIN AffectedIds :
            AffectedIds[i] = AffectedIds[j] => i = j

\* C28: in every analyze_impact result no node id appears more than once
\* across direct_impact and indirect_impact taken together, and the analyzed
\* node itself appears in neither list, also when it has a self-loop or lies
\* on a cycle
C28_AffectedOnceAndNotSelf ==
    result.op = "analyze_impact" =>
        /\ \A i \in DOMAIN AffectedIds, j \in DOMAIN AffectedIds :
               AffectedIds[i] = AffectedIds[j] => i = j
        /\ result.node_id \notin Range(AffectedIds)

-----------------------------------------------------------------------------
(* Properties of build_graph when an extractor fails.                      *)

\* the file is one an extractor is run on, and the extractor raises
Faulty(file) ==
    /\ Suffix(file.file_path) \in {SuffixGd, SuffixTscn}
    /\ file.extraction.raises

\* the files of the list without the faulty ones
Sound(files) == LET IsSound(file) == ~Faulty(file) IN SelectSeq(files, IsSound)

\* C27: a fault of the extractor on one file does not end the build: the
\* call returns its summary, the message of the fault is among the summary's
\* parse_errors, and the graph and the stored results of the other files are
\* those of a build of the same files without the faulty ones, the files
\* that follow a faulty one included
C27_FaultsArePerFile ==
    [][result'.op = "build_graph" /\ result # result' =>
          LET files == result'.files
              without == build_graph(Builder(graph, parse_results), Sound(files))
          IN  /\ result'.raised = None
              /\ \A i \in DOMAIN files :
                     Faulty(files[i]) =>
                         /\ files[i].extraction.message \in Range(result'.value.parse_errors)
                         /\ files[i].file_path \in DOMAIN parse_results'
                         /\ parse_results'[files[i].file_path].nodes = <<>>
                         /\ parse_results'[files[i].file_path].edges = <<>>
              /\ graph' = without.builder.graph
              /\ \A i \in DOMAIN files :
                     ~Faulty(files[i]) /\ files[i].file_path \in DOMAIN parse_results' =>
                         parse_results'[files[i].file_path]
                             = without.builder.parse_results[files[i].file_path]
              /\ result'.value.total_nodes = without.stats.total_nodes
              /\ result'.value.total_edges = without.stats.total_edges]_vars

\* a build met the broken script first and has merged the script and the
\* scene that followed it
C27_Witness ==
    /\ IsBuildGraph
    /\ Len(result.files) = 3
    /\ result.files[1] = BrokenScript
    /\ result.files[2] = PlayerScript
    /\ result.files[3] = MainScene
    /\ result.value.parse_errors = <<"invalid start byte">>
    /\ HasEdge(graph, "fn_run", "fn_helper")
    /\ HasEdge(graph, "scene_main", "fn_run")
    /\ DOMAIN parse_results = {FileBroken, FilePlayer, FileMainTscn}

-----------------------------------------------------------------------------
(* Properties of what a builder keeps from one call to the next.           *)

\* every node id and every edge pair of the step's first state is in its
\* second
NothingRemoved ==
    /\ DOMAIN graph.node \subseteq DOMAIN graph'.node
    /\ DOMAIN graph.data \subseteq DOMAIN graph'.data

\* C30: build_graph only adds or overwrites: every node id and every ordered
\* edge pair in the builder's graph before a build_graph call is there after
\* it, and so is every stored parse result's key; a step that removes a node
\* or an edge is a step of clear() or import_json; after clear() the graph
\* has no nodes and no edges and no parse result is stored
C30_OnlyClearAndImportRemove ==
    /\ [][result'.op = "build_graph" /\ result # result' =>
              /\ NothingRemoved
              /\ DOMAIN parse_results \subseteq DOMAIN parse_results']_vars
    /\ [][~NothingRemoved => result'.op \in {"clear", "import_json"}]_vars
    /\ [][result'.op = "clear" /\ result # result' =>
              /\ graph' = EmptyGraph
              /\ parse_results' = EmptyDict]_vars

\* the script was built again after _helper was taken out of it: the stored
\* parse result is the new one, and the graph still holds the function and
\* the scene of the earlier build
C30_Witness ==
    /\ IsBuildGraph
    /\ result.files = <<PlayerScriptEdited>>
    /\ parse_results[FilePlayer] = _parse_file(PlayerScriptEdited)
    /\ FileMainTscn \in DOMAIN parse_results
    /\ InGraph(graph, "fn_helper")
    /\ graph.node["fn_helper"] = NodeAttributes(FnHelper)
    /\ InGraph(graph, "scene_main")

-----------------------------------------------------------------------------
(* Properties of the lazy initialisation in the server.                    *)

\* no getter has returned None
GettersReturnObjects == result.op \in Getters => result.value # None

\* at most one thread has run build_graph
BuiltOnce == Cardinality({t \in DOMAIN threads : threads[t].built}) <= 1

\* C29: under any interleaving of the request threads of a fresh app the
\* lazily built graph is never exposed half-initialised: get_queries(),
\* get_tracer() and get_analyzer() never return None, and build_graph is
\* executed at most once per app
C29_InitialisedOnce ==
    /\ result.op \in Getters => result.value # None
    /\ Cardinality({t \in DOMAIN threads : threads[t].built}) <= 1

-----------------------------------------------------------------------------
(* Properties of the queries as readers of the shared graph.               *)

IsQueryResult == result # NoResult /\ result.op \in QueryOps

=============================================================================
